---- MODULE Spec2Model ----
(***************************************************************************)
(* Flight data analysis pipeline: DataProcessor (src/app/data_processor.py)*)
(* and FlightAnalyzer (src/app/analyzer.py).                               *)
(*                                                                         *)
(* Representation.                                                         *)
(*  - A pandas cell that may be missing (NaN / NaT / None) is an option:   *)
(*    None == <<>> is the missing value, Some(v) == <<v>> a present one.   *)
(*  - A timestamp is a number of seconds since the epoch; a calendar date  *)
(*    is a number of days since the epoch.                                 *)
(*  - A delay "in minutes" is the exact quotient seconds / 60; it is kept  *)
(*    as its numerator, i.e. in ticks of 1/60 minute (Minutes(m) = 60 m),  *)
(*    so that no precision is lost and rounding would be visible.          *)
(*  - A data frame is [columns |-> sequence of names, rows |-> sequence of *)
(*    functions from the column names to cells].                           *)
(***************************************************************************)
EXTENDS Integers, Sequences, FiniteSets, TLC

VARIABLES pc, raw, header_row, df, params, results, err, airline_flights,
          cascade_impacts,
          \* FlightDataPipeline: the configuration file given to the loader,
          \* the steps asked of run_pipeline, the state of the source file,
          \* the component calls that have returned, in order, and whether
          \* _generate_pipeline_report has run
          config_input, steps, source, ran, report_written,
          \* DataProcessor._parse_datetime_fields: the column that
          \* _find_date_column returned (None before the call and when it
          \* returned None)
          date_col

vars == <<pc, raw, header_row, df, params, results, err, airline_flights,
         cascade_impacts, config_input, steps, source, ran, report_written,
         date_col>>

pipelineVars == <<config_input, steps, source, ran, report_written>>

-----------------------------------------------------------------------------
(* Bounds of the model *)

MaxRows == 1

-----------------------------------------------------------------------------
(* Missing values *)

None == <<>>

Some(v) == <<v>>

isna(x) == x = None

notna(x) == x # None

Val(x) == x[1]

-----------------------------------------------------------------------------
(* Units *)

TicksPerMinute == 60

SecondsPerHour == 3600

SecondsPerDay == 86400

Minutes(m) == m * TicksPerMinute

-----------------------------------------------------------------------------
(* Column names *)

FlightNumberCol == "Flight Number"

DepDelayCol == "Departure Delay (min)"

ArrDelayCol == "Arrival Delay (min)"

-----------------------------------------------------------------------------
(* Data frames *)

Has(f, c) == \E i \in DOMAIN f.columns : f.columns[i] = c

ColumnSet(f) == {f.columns[i] : i \in DOMAIN f.columns}

\* df[c].iloc[i], with a column that does not exist read as missing
Get(f, i, c) == IF Has(f, c) THEN f.rows[i][c] ELSE None

\* df[c] = <row-wise expression>: overwrites the column in place when it
\* exists, appends it as the last column otherwise
SetCol(f, c, g(_)) ==
    [columns |-> IF Has(f, c) THEN f.columns ELSE Append(f.columns, c),
     rows    |-> [i \in DOMAIN f.rows |->
                    IF Has(f, c)
                    THEN [f.rows[i] EXCEPT ![c] = g(f.rows[i])]
                    ELSE f.rows[i] @@ (c :> g(f.rows[i]))]]

EmptyFrame == [columns |-> <<>>, rows |-> <<>>]

-----------------------------------------------------------------------------
(* DataProcessor._calculate_delays *)

\* a delay calculator that clamps early departures to zero
DelayMinutes_clamped(a, s) ==
    IF isna(a) \/ isna(s) THEN None
    ELSE Some(IF Val(a) < Val(s) THEN 0 ELSE Val(a) - Val(s))

\* (a - s).dt.total_seconds() / 60, NaT propagating to NaN
DelayMinutes(a, s) ==
    IF isna(a) \/ isna(s) THEN None ELSE Some(Val(a) - Val(s))

calculate_delays(f) ==
    LET f1 == IF Has(f, "STD_dt") /\ Has(f, "ATD_dt")
              THEN SetCol(f, DepDelayCol,
                          LAMBDA r : DelayMinutes(r["ATD_dt"], r["STD_dt"]))
              ELSE f
    IN  IF Has(f1, "STA_dt") /\ Has(f1, "ATA_time_dt")
        THEN SetCol(f1, ArrDelayCol,
                    LAMBDA r : DelayMinutes(r["ATA_time_dt"], r["STA_dt"]))
        ELSE f1

-----------------------------------------------------------------------------
(* DataProcessor._add_derived_features *)

UpperCase == {"A", "B", "C", "D", "E", "F", "G", "H", "I", "J", "K", "L", "M",
              "N", "O", "P", "Q", "R", "S", "T", "U", "V", "W", "X", "Y", "Z"}

\* Series.str.extract(r'([A-Z]{2,3})'): the leftmost match of the pattern,
\* greedy, so 3 letters when the third one is uppercase too
ExtractAirline(fn) ==
    IF isna(fn) THEN None
    ELSE LET s == Val(fn)
             starts == {i \in 1..(Len(s) - 1) :
                           s[i] \in UpperCase /\ s[i + 1] \in UpperCase}
         IN  IF starts = {} THEN None
             ELSE LET i == CHOOSE k \in starts : \A j \in starts : k <= j
                      n == IF i + 2 <= Len(s) /\ s[i + 2] \in UpperCase
                           THEN 3 ELSE 2
                  IN  Some(SubSeq(s, i, i + n - 1))

\* Series.dt.hour
HourOf(t) == IF isna(t) THEN None ELSE Some((Val(t) \div SecondsPerHour) % 24)

\* Series.dt.weekday, Monday = 0; day 0 of the epoch is a Thursday
WeekdayOf(d) == (d + 3) % 7

DayNames == <<"Monday", "Tuesday", "Wednesday", "Thursday", "Friday",
              "Saturday", "Sunday">>

\* Series.dt.day_name()
DayNameOf(d) == IF isna(d) THEN None ELSE Some(DayNames[WeekdayOf(Val(d)) + 1])

\* Series.dt.weekday >= 5: a comparison with NaN is False
IsWeekendOf(d) == IF isna(d) THEN Some(FALSE) ELSE Some(WeekdayOf(Val(d)) >= 5)

\* an on-time flag with a strict bound
OnTimeOf_strict(delay, threshold) ==
    IF isna(delay) THEN Some(FALSE) ELSE Some(Val(delay) < Minutes(threshold))

\* Series <= delay_threshold: a comparison with NaN is False
OnTimeOf(delay, threshold) ==
    IF isna(delay) THEN Some(FALSE) ELSE Some(Val(delay) <= Minutes(threshold))

\* config['analysis_params'][k] raises KeyError when k is not set
HasParam(p, k) == k \in DOMAIN p

add_derived_features(f, p) ==
    LET f1 == IF Has(f, "STD_dt")
              THEN SetCol(f, "Departure Hour", LAMBDA r : HourOf(r["STD_dt"]))
              ELSE f
        f2 == IF Has(f1, "STA_dt")
              THEN SetCol(f1, "Arrival Hour", LAMBDA r : HourOf(r["STA_dt"]))
              ELSE f1
        f3 == IF Has(f2, FlightNumberCol)
              THEN SetCol(f2, "Airline",
                          LAMBDA r : ExtractAirline(r[FlightNumberCol]))
              ELSE f2
        f4 == IF Has(f3, "Date")
              THEN SetCol(SetCol(f3, "Day of Week",
                                 LAMBDA r : DayNameOf(r["Date"])),
                          "Is Weekend", LAMBDA r : IsWeekendOf(r["Date"]))
              ELSE f3
    IN  IF Has(f4, DepDelayCol)
        THEN SetCol(f4, "On Time",
                    LAMBDA r : OnTimeOf(r[DepDelayCol], p["delay_threshold"]))
        ELSE f4

-----------------------------------------------------------------------------
(* Exact arithmetic: a rational is <<numerator, denominator>> in lowest     *)
(* terms with a positive denominator; a float that may be NaN is an option  *)
(* of a rational.                                                           *)

Abs(x) == IF x < 0 THEN -x ELSE x

RECURSIVE GCD(_, _)
GCD(a, b) == IF b = 0 THEN a ELSE GCD(b, a % b)

Rat(n, d) ==
    LET g == GCD(Abs(n), Abs(d))
        sg == IF d < 0 THEN -1 ELSE 1
    IN  <<sg * (n \div g), sg * (d \div g)>>

RECURSIVE SumSeq(_)
SumSeq(s) == IF s = <<>> THEN 0 ELSE Head(s) + SumSeq(Tail(s))

RECURSIVE SumSquares(_)
SumSquares(s) == IF s = <<>> THEN 0 ELSE Head(s) * Head(s) + SumSquares(Tail(s))

RECURSIVE SortInts(_)
SortInts(s) ==
    IF s = <<>> THEN <<>>
    ELSE LET rest == SortInts(Tail(s))
             lo == SelectSeq(rest, LAMBDA x : x <= Head(s))
             hi == SelectSeq(rest, LAMBDA x : x > Head(s))
         IN  lo \o <<Head(s)>> \o hi

\* the elements of a finite set of integers in ascending order
RECURSIVE SortedSeq(_)
SortedSeq(S) ==
    IF S = {} THEN <<>>
    ELSE LET m == CHOOSE x \in S : \A y \in S : x <= y
         IN  <<m>> \o SortedSeq(S \ {m})

\* numpy round: to the nearest integer, a tie to the even one
RoundHalfEven(n, d) ==
    LET q == n \div d
        r == n - q * d
    IN  IF 2 * r < d THEN q
        ELSE IF 2 * r > d THEN q + 1
        ELSE IF q % 2 = 0 THEN q ELSE q + 1

-----------------------------------------------------------------------------
(* Series helpers *)

\* df[c] as the sequence of its cells
Column(f, c) == [i \in DOMAIN f.rows |-> f.rows[i][c]]

\* Series.dropna(), as the sequence of the present values
Present(s) ==
    LET kept == SelectSeq(s, LAMBDA x : x # None)
    IN  [i \in DOMAIN kept |-> Val(kept[i])]

\* Series.mean(): NaN skipped, NaN when nothing is left
Mean(s) ==
    LET v == Present(s)
    IN  IF v = <<>> THEN None ELSE Some(Rat(SumSeq(v), Len(v)))

\* Series.median()
Median(v) ==
    LET x == SortInts(v)
        n == Len(x)
    IN  IF n = 0 THEN None
        ELSE IF n % 2 = 1 THEN Some(Rat(x[(n + 1) \div 2], 1))
        ELSE Some(Rat(x[n \div 2] + x[n \div 2 + 1], 2))

\* Series.std() (ddof = 1), kept as its square: the sample variance, NaN
\* for fewer than two values
Variance(v) ==
    LET n == Len(v)
    IN  IF n < 2 THEN None
        ELSE Some(Rat(n * SumSquares(v) - SumSeq(v) * SumSeq(v), n * (n - 1)))

\* Series.quantile(k / 100) with linear interpolation
Quantile(v, k) ==
    LET x == SortInts(v)
        n == Len(x)
        pos == (n - 1) * k
        lo == pos \div 100
        rem == pos % 100
    IN  IF n = 0 THEN None
        ELSE IF rem = 0 THEN Some(Rat(x[lo + 1], 1))
        ELSE Some(Rat(100 * x[lo + 1] + (x[lo + 2] - x[lo + 1]) * rem, 100))

\* mean of a boolean Series: the fraction of True
BoolMean(s) ==
    IF s = <<>> THEN None
    ELSE Some(Rat(Len(SelectSeq(s, LAMBDA x : x = Some(TRUE))), Len(s)))

EmptyMap == [k \in {} |-> None]

\* the rows of the frame, by index, whose cell in column c is v
RowsWhere(f, c, v) == {i \in DOMAIN f.rows : f.rows[i][c] = v}

\* the present values of column c in first-appearance order without
\* repetition: Series.dropna().unique()
RECURSIVE Unique(_)
Unique(s) ==
    IF s = <<>> THEN <<>>
    ELSE LET init == Unique(SubSeq(s, 1, Len(s) - 1))
             x == s[Len(s)]
         IN  IF \E i \in DOMAIN init : init[i] = x THEN init ELSE Append(init, x)

Range(s) == {s[i] : i \in DOMAIN s}

\* the sub-sequence of the cells of column c at the rows of the set I, in
\* row order
ColumnAt(f, c, I) ==
    LET idx == SortedSeq(I)
    IN  [k \in DOMAIN idx |-> f.rows[idx[k]][c]]

-----------------------------------------------------------------------------
(* FlightAnalyzer._calculate_basic_stats *)

calculate_basic_stats(f) ==
    LET dated == Has(f, "Date") /\ Present(Column(f, "Date")) # <<>>
        dates == IF Has(f, "Date") THEN Range(Present(Column(f, "Date"))) ELSE {}
    IN  [total_flights   |-> Len(f.rows),
         unique_airlines |-> IF Has(f, "Airline")
                             THEN Cardinality(Range(Present(Column(f, "Airline"))))
                             ELSE 0,
         date_start      |-> IF dated
                             THEN Some(CHOOSE d \in dates : \A e \in dates : d <= e)
                             ELSE None,
         date_end        |-> IF dated
                             THEN Some(CHOOSE d \in dates : \A e \in dates : d >= e)
                             ELSE None,
         avg_daily_flights |-> IF dated
                               THEN Rat(Len(f.rows), Cardinality(dates))
                               ELSE Rat(0, 1)]

-----------------------------------------------------------------------------
(* FlightAnalyzer._analyze_peak_times *)

\* the groups of groupby('Departure Hour'): the present hours, ascending
HourGroups(f) == SortedSeq(Range(Present(Column(f, "Departure Hour"))))

\* one row of hourly_stats.  Avg Delay is round(mean, 2), in hundredths of
\* a minute; Delay Std is kept as the sample variance
HourStats(f, h) ==
    LET I == RowsWhere(f, "Departure Hour", Some(h))
        count == Len(Present(ColumnAt(f, FlightNumberCol, I)))
        delays == Present(ColumnAt(f, DepDelayCol, I))
        avg == IF delays = <<>> THEN None
               ELSE Some(RoundHalfEven(100 * SumSeq(delays),
                                       TicksPerMinute * Len(delays)))
    IN  [flight_count |-> count,
         avg_delay |-> avg,
         delay_var |-> Variance(delays),
         congestion_index |-> count * (IF isna(avg) THEN 0 ELSE Val(avg))]

\* the mutant reports the last index of the maximum
IdxMax_last(hours, key) ==
    LET best == CHOOSE i \in DOMAIN hours :
                   /\ \A j \in DOMAIN hours : key[hours[j]] <= key[hours[i]]
                   /\ \A j \in (i + 1)..Len(hours) : key[hours[j]] < key[hours[i]]
    IN  hours[best]

\* DataFrame.idxmax of one column (key maps an hour to the column's value):
\* the first index, in hour order, of the maximum
IdxMax(hours, key) ==
    LET best == CHOOSE i \in DOMAIN hours :
                   /\ \A j \in DOMAIN hours : key[hours[j]] <= key[hours[i]]
                   /\ \A j \in 1..(i - 1) : key[hours[j]] < key[hours[i]]
    IN  hours[best]

\* DataFrame.nlargest(n, col): the n largest, ties in order of appearance
RECURSIVE NLargest(_, _, _)
NLargest(n, hours, key) ==
    IF n = 0 \/ hours = <<>> THEN <<>>
    ELSE LET top == IdxMax(hours, key)
         IN  <<top>> \o NLargest(n - 1, SelectSeq(hours, LAMBDA h : h # top), key)

PeakHoursCount == 5

\* the exception _analyze_peak_times raises, "none" when it returns:
\* agg() names two columns that must exist; idxmax() of a frame without
\* rows raises ValueError.  (idxmax() of an all-NaN column is NaN, as in
\* pandas 1.x and 2.x.)
peak_times_error(f) ==
    IF ~Has(f, "Departure Hour") THEN "none"
    ELSE IF ~Has(f, FlightNumberCol) \/ ~Has(f, DepDelayCol) THEN "KeyError"
    ELSE IF HourGroups(f) = <<>> THEN "ValueError"
    ELSE "none"

analyze_peak_times(f) ==
    IF ~Has(f, "Departure Hour") THEN EmptyMap
    ELSE LET hours == HourGroups(f)
             stats == [h \in Range(hours) |-> HourStats(f, h)]
         IN  [hourly_stats |-> stats,
              peak_hours |->
                  NLargest(PeakHoursCount, hours,
                           [h \in Range(hours) |-> stats[h].flight_count]),
              busiest_hour |->
                  IdxMax(hours, [h \in Range(hours) |-> stats[h].flight_count]),
              most_congested_hour |->
                  IdxMax(hours,
                         [h \in Range(hours) |-> stats[h].congestion_index])]

-----------------------------------------------------------------------------
(* FlightAnalyzer._analyze_delays *)

\* 'Delay' in col and 'min' in col, over the column names of the model
IsDelayCol(c) == c \in {DepDelayCol, ArrDelayCol}

DelayCols(f) == SelectSeq(f.columns, IsDelayCol)

\* (delay_data <= delay_threshold).mean()
OnTimeRate(v, threshold) ==
    Rat(Len(SelectSeq(v, LAMBDA x : x <= Minutes(threshold))), Len(v))

DelayStats(v, threshold) ==
    [mean |-> Rat(SumSeq(v), Len(v)),
     median |-> Median(v),
     variance |-> Variance(v),
     p25 |-> Quantile(v, 25),
     p75 |-> Quantile(v, 75),
     p95 |-> Quantile(v, 95),
     on_time_rate |-> OnTimeRate(v, threshold)]

\* df.groupby('Day of Week')[col].mean(): rows without a day are in no group
DailyPatterns(f, c) ==
    [d \in Range(Present(Column(f, "Day of Week"))) |->
        Mean(ColumnAt(f, c, RowsWhere(f, "Day of Week", Some(d))))]

\* the delay columns that hold at least one value
FilledDelayCols(f) ==
    {c \in Range(DelayCols(f)) : Present(Column(f, c)) # <<>>}

delays_error(f, p) ==
    IF FilledDelayCols(f) # {} /\ ~HasParam(p, "delay_threshold")
    THEN "KeyError" ELSE "none"

analyze_delays(f, p) ==
    LET cols == DelayCols(f)
        keys == FilledDelayCols(f) \cup
                (IF cols # <<>> /\ Has(f, "Day of Week")
                 THEN {"daily_patterns"} ELSE {})
    IN  [k \in keys |->
            IF k = "daily_patterns" THEN DailyPatterns(f, cols[1])
            ELSE DelayStats(Present(Column(f, k)), p["delay_threshold"])]

-----------------------------------------------------------------------------
(* FlightAnalyzer._calculate_efficiency_metrics *)

SevereDelayMinutes == 30

\* a severe-delay rate over the records of known airline only
SevereDelayRate_known_airline(f) ==
    LET known == IF Has(f, "Airline")
                 THEN Len(Present(Column(f, "Airline"))) ELSE Len(f.rows)
    IN  IF known = 0 THEN None
        ELSE Some(Rat(Len(SelectSeq(Present(Column(f, DepDelayCol)),
                                    LAMBDA x : x > Minutes(SevereDelayMinutes))),
                      known))

\* (delay > 30).sum() / len(df): numpy 0 / 0 is NaN
SevereDelayRate(f) ==
    IF Len(f.rows) = 0 THEN None
    ELSE Some(Rat(Len(SelectSeq(Present(Column(f, DepDelayCol)),
                                LAMBDA x : x > Minutes(SevereDelayMinutes))),
                  Len(f.rows)))

\* df.groupby('Airline')['On Time'].mean()
AirlinePerformance(f) ==
    [a \in Range(Present(Column(f, "Airline"))) |->
        BoolMean(ColumnAt(f, "On Time", RowsWhere(f, "Airline", Some(a))))]

calculate_efficiency_metrics(f) ==
    LET keys == (IF Has(f, "On Time") THEN {"on_time_performance"} ELSE {})
                \cup (IF Has(f, DepDelayCol) THEN {"severe_delay_rate"} ELSE {})
                \cup (IF Has(f, "Airline") /\ Has(f, "On Time")
                      THEN {"airline_performance"} ELSE {})
    IN  [k \in keys |->
            CASE k = "on_time_performance" -> BoolMean(Column(f, "On Time"))
              [] k = "severe_delay_rate" -> SevereDelayRate(f)
              [] OTHER -> AirlinePerformance(f)]

-----------------------------------------------------------------------------
(* FlightAnalyzer._run_simulations *)

SimulationFloorMinutes == 15

\* a simulation without the -15 floor
SimulatedDelay_unclipped(d, reduction) ==
    IF isna(d) THEN None ELSE Some(Val(d) - Minutes(reduction))

\* (delay - reduction).clip(lower=-15), NaN staying NaN
SimulatedDelay(d, reduction) ==
    IF isna(d) THEN None
    ELSE LET x == Val(d) - Minutes(reduction)
         IN  Some(IF x < -Minutes(SimulationFloorMinutes)
                  THEN -Minutes(SimulationFloorMinutes) ELSE x)

RatSub(a, b) == Rat(a[1] * b[2] - b[1] * a[2], a[2] * b[2])

\* a / b in floating point: a zero divisor gives <<s, 0>> (inf, or nan when
\* s = 0) instead of a finite value
RatDiv(a, b) ==
    IF b[1] = 0
    THEN <<IF a[1] > 0 THEN 1 ELSE IF a[1] < 0 THEN -1 ELSE 0, 0>>
    ELSE Rat(a[1] * b[2], a[2] * b[1])

IsFinite(x) == x[2] # 0

\* a percentage without the guard on a zero mean
PercentImprovement_unguarded(improvement, current_avg) ==
    IF isna(current_avg) THEN None
    ELSE LET q == RatDiv(Val(improvement), Val(current_avg))
         IN  Some(IF IsFinite(q) THEN Rat(100 * q[1], q[2]) ELSE q)

\* float((improvement / current_avg) * 100) if current_avg != 0 else 0;
\* NaN != 0 is true and NaN / NaN is NaN
PercentImprovement(improvement, current_avg) ==
    IF isna(current_avg) THEN None
    ELSE IF Val(current_avg) # <<0, 1>>
         THEN LET q == RatDiv(Val(improvement), Val(current_avg))
              IN  Some(IF IsFinite(q) THEN Rat(100 * q[1], q[2]) ELSE q)
         ELSE Some(<<0, 1>>)

simulations_error(f, p) ==
    IF Has(f, DepDelayCol) /\ ~HasParam(p, "simulation_delay_reduction")
    THEN "KeyError" ELSE "none"

run_simulations(f, p) ==
    IF ~Has(f, DepDelayCol) THEN EmptyMap
    ELSE LET reduction == p["simulation_delay_reduction"]
             delays == Column(f, DepDelayCol)
             simulated_delays ==
                 [i \in DOMAIN delays |-> SimulatedDelay(delays[i], reduction)]
             current_avg == Mean(delays)
             simulated_avg == Mean(simulated_delays)
             improvement == IF isna(current_avg) THEN None
                            ELSE Some(RatSub(Val(current_avg), Val(simulated_avg)))
         IN  [delay_reduction_scenario |->
                [reduction_minutes |-> reduction,
                 current_avg_delay |-> current_avg,
                 simulated_avg_delay |-> simulated_avg,
                 improvement |-> improvement,
                 percent_improvement |->
                     PercentImprovement(improvement, current_avg)]]

-----------------------------------------------------------------------------
(* FlightAnalyzer._analyze_cascading_impact *)

CascadeTriggerMinutes == 15

\* a before b in the result of sort_values('STD_dt'): ascending, NaT last.
\* The default sort kind is quicksort, which is not stable: rows of equal
\* STD_dt come out in any order.  The NaT rows are appended in row order.
SortedBefore(f, a, b) ==
    LET ka == f.rows[a]["STD_dt"]
        kb == f.rows[b]["STD_dt"]
    IN  IF isna(ka) THEN isna(kb) /\ a < b
        ELSE isna(kb) \/ Val(ka) <= Val(kb)

\* the row orders sort_values('STD_dt') can produce (the rows in place when
\* the frame has no STD_dt column and nothing is sorted)
SortOutcomes(f) ==
    LET n == Len(f.rows)
    IN  IF ~Has(f, "STD_dt") THEN {[i \in 1..n |-> i]}
        ELSE {s \in [1..n -> 1..n] :
                 /\ \A i, j \in 1..n : i # j => s[i] # s[j]
                 /\ \A i, j \in 1..n : i < j => SortedBefore(f, s[i], s[j])}

\* df['Airline'].dropna().unique()
Airlines(f) == Unique(Present(Column(f, "Airline")))

\* the mutant walks the whole schedule for every airline
AirlineFlights_whole_schedule(f, airline, order) == order

\* df[df['Airline'] == airline], sorted: the rows of the airline in the
\* order given
AirlineFlights(f, airline, order) ==
    SelectSeq(order, LAMBDA i : f.rows[i]["Airline"] = Some(airline))

\* a trigger that also fires at exactly 15 minutes
Triggers_inclusive(prev_delay) ==
    notna(prev_delay) /\ Val(prev_delay) >= Minutes(CascadeTriggerMinutes)

\* does the predecessor's delay trigger a cascade
Triggers(prev_delay) ==
    notna(prev_delay) /\ Val(prev_delay) > Minutes(CascadeTriggerMinutes)

\* prev_delay * cascade_factor, the factor in hundredths
CascadeDelay(prev_delay, cascade_factor) == Val(prev_delay) * cascade_factor

\* the entries one airline appends to cascade_impacts
AirlineImpacts(f, flights, cascade_factor) ==
    IF Has(f, "STD_dt") /\ Len(flights) > 1
    THEN LET positions == [k \in 1..(Len(flights) - 1) |-> k + 1]
             hit == SelectSeq(positions,
                      LAMBDA k : Triggers(f.rows[flights[k - 1]][DepDelayCol]))
         IN  [n \in DOMAIN hit |->
                [row |-> flights[hit[n]],
                 cascade_delay |->
                     CascadeDelay(f.rows[flights[hit[n] - 1]][DepDelayCol],
                                  cascade_factor),
                 original_delay |-> f.rows[flights[hit[n]]][DepDelayCol]]]
    ELSE <<>>

RECURSIVE CascadeImpactsOf(_, _, _, _)
CascadeImpactsOf(f, airlines, order, cascade_factor) ==
    IF airlines = <<>> THEN <<>>
    ELSE AirlineImpacts(f, AirlineFlights(f, Head(airlines), order),
                        cascade_factor)
         \o CascadeImpactsOf(f, Tail(airlines), order, cascade_factor)

CascadeApplies(f) == Has(f, "Airline") /\ Has(f, DepDelayCol)

CascadeImpacts(f, p, order) ==
    IF CascadeApplies(f) /\ HasParam(p, "cascade_factor")
    THEN CascadeImpactsOf(f, Airlines(f), order, p["cascade_factor"])
    ELSE <<>>

\* the flight's number is read for every entry appended
cascading_impact_error(f, p, order) ==
    IF ~CascadeApplies(f) THEN "none"
    ELSE IF ~HasParam(p, "cascade_factor") THEN "KeyError"
    ELSE IF CascadeImpacts(f, p, order) # <<>> /\ ~Has(f, FlightNumberCol)
         THEN "KeyError"
    ELSE "none"

CascadeTotal(impacts) ==
    SumSeq([n \in DOMAIN impacts |-> impacts[n].cascade_delay])

analyze_cascading_impact(f, p, order) ==
    IF ~CascadeApplies(f) THEN EmptyMap
    ELSE LET impacts == CascadeImpacts(f, p, order)
         IN  [affected_flights |-> Len(impacts),
              avg_cascade_impact |->
                  IF impacts # <<>>
                  THEN Rat(CascadeTotal(impacts), Len(impacts))
                  ELSE Rat(0, 1),
              total_cascade_minutes |-> CascadeTotal(impacts)]

-----------------------------------------------------------------------------
(* FlightAnalyzer.run_analysis *)

SubResults == <<"basic_stats", "peak_analysis", "delay_analysis",
                "efficiency_metrics", "simulation", "cascade_analysis">>

\* the first exception raised by the sub-computations, in call order
run_analysis_error(f, p, order) ==
    LET errors == <<peak_times_error(f), delays_error(f, p),
                    simulations_error(f, p),
                    cascading_impact_error(f, p, order)>>
        raised == SelectSeq(errors, LAMBDA e : e # "none")
    IN  IF raised = <<>> THEN "none" ELSE Head(raised)

run_analysis(f, p, order) ==
    [basic_stats |-> calculate_basic_stats(f),
     peak_analysis |-> analyze_peak_times(f),
     delay_analysis |-> analyze_delays(f, p),
     efficiency_metrics |-> calculate_efficiency_metrics(f),
     simulation |-> run_simulations(f, p),
     cascade_analysis |-> analyze_cascading_impact(f, p, order)]

-----------------------------------------------------------------------------
(* Inputs: the frame left by _parse_datetime_fields *)

DefaultParams ==
    [k \in {"delay_threshold", "cascade_factor", "simulation_delay_reduction",
            "peak_hour_shift"} |->
        CASE k = "delay_threshold" -> 15
          [] k = "cascade_factor" -> 40      \* in hundredths: 0.4
          [] k = "simulation_delay_reduction" -> 5
          [] OTHER -> 1]

\* a user configuration that overrides analysis_params as a whole
CustomParams ==
    [DefaultParams EXCEPT !["delay_threshold"] = 20,
                          !["cascade_factor"] = 50,
                          !["simulation_delay_reduction"] = 10]

\* dict.update replaces the nested mapping: a user file that sets only
\* peak_hour_shift leaves the other parameters unset
PartialParams == [k \in {"peak_hour_shift"} |-> 2]

ParamChoices == {DefaultParams, CustomParams, PartialParams}

FlightNumbers == {<<"A", "B", "1", "2">>, <<"x", "9">>}

Dates == {2}

At(d, h, m, s) == d * SecondsPerDay + h * SecondsPerHour + m * 60 + s

\* the timestamps a parsed row can hold, all on the row's own date
Restrict(r, cs) == [c \in cs |-> r[c]]

DtCols == {"STD_dt", "ATD_dt", "STA_dt", "ATA_time_dt"}

ParsedRowsFull ==
    LET fns == {None} \cup {Some(x) : x \in FlightNumbers}
        undated == {[c \in {FlightNumberCol, "Date"} \cup DtCols |->
                        IF c = FlightNumberCol THEN fn ELSE None] : fn \in fns}
        dated(d) ==
            {[c \in {FlightNumberCol, "Date"} \cup DtCols |->
                 CASE c = FlightNumberCol -> fn
                   [] c = "Date" -> Some(d)
                   [] c = "STD_dt" -> std
                   [] c = "ATD_dt" -> atd
                   [] c = "STA_dt" -> arr[1]
                   [] OTHER -> arr[2]] :
                 fn \in fns,
                 std \in {None, Some(At(d, 10, 0, 0))},
                 atd \in {None, Some(At(d, 9, 40, 0)), Some(At(d, 10, 15, 0)),
                          Some(At(d, 10, 15, 1)), Some(At(d, 10, 20, 0))},
                 arr \in {<<Some(At(d, 12, 0, 0)), Some(At(d, 12, 30, 0))>>,
                          <<Some(At(d, 12, 0, 0)), None>>,
                          <<None, Some(At(d, 12, 30, 0))>>}}
    IN  undated \cup UNION {dated(d) : d \in Dates}

\* the column sets _parse_datetime_fields can leave: no date column found
\* (no Date, no timestamp), or Date and one timestamp per time column of the
\* source
ParsedColumnChoices ==
    {<<FlightNumberCol>>} \cup
    {<<FlightNumberCol, "Date">> \o s :
        s \in {<<>>, <<"STD_dt">>, <<"STD_dt", "ATD_dt">>, <<"ATD_dt">>,
               <<"STD_dt", "ATD_dt", "STA_dt">>,
               <<"STD_dt", "ATD_dt", "ATA_time_dt">>,
               <<"STD_dt", "STA_dt", "ATA_time_dt">>,
               <<"STD_dt", "ATD_dt", "STA_dt", "ATA_time_dt">>}}

RowsOver(cs) == {Restrict(r, {cs[i] : i \in DOMAIN cs}) : r \in ParsedRowsFull}

ParsedFrames(n) ==
    UNION {{[columns |-> cs, rows |-> rs] :
               rs \in UNION {[1..k -> RowsOver(cs)] : k \in 0..n}} :
           cs \in ParsedColumnChoices}

-----------------------------------------------------------------------------
(* Specification of the feature stages of DataProcessor.transform_data *)

\* a configuration given as a dictionary: no file is read
NoConfigFile == [kind |-> "no_path", object |-> <<>>]

\* the components driven directly (main.py builds DataProcessor and
\* FlightAnalyzer itself): no run_pipeline call is in progress
Standalone ==
    /\ config_input = NoConfigFile
    /\ steps = {}
    /\ source = "present"
    /\ ran = <<>>
    /\ report_written = FALSE

Init ==
    /\ pc = "parsed"
    /\ raw = <<>>
    /\ header_row = 0
    /\ df \in ParsedFrames(MaxRows)
    /\ params \in ParamChoices
    /\ results = EmptyMap
    /\ err = "none"
    /\ airline_flights = EmptyMap
    /\ cascade_impacts = <<>>
    /\ date_col = None
    /\ Standalone

CalculateDelays ==
    /\ pc = "parsed"
    /\ df' = calculate_delays(df)
    /\ pc' = "delays"
    /\ UNCHANGED <<raw, header_row, params, results, err, airline_flights,
                   cascade_impacts, pipelineVars, date_col>>

AddDerivedFeatures ==
    /\ pc = "delays"
    /\ IF HasParam(params, "delay_threshold")
       THEN /\ df' = add_derived_features(df, params)
            /\ pc' = "cleaned"
            /\ err' = "none"
       ELSE /\ df' = df
            /\ pc' = "failed"
            /\ err' = "KeyError"
    /\ UNCHANGED <<raw, header_row, params, results, airline_flights,
                   cascade_impacts, pipelineVars, date_col>>

\* the mutant sorts the caller's frame itself
frame_after_analysis_in_place(f, order) ==
    [columns |-> f.columns, rows |-> [i \in DOMAIN order |-> f.rows[order[i]]]]

\* the caller's frame after run_analysis: the sub-computations build new
\* series and frames, and the cascade analysis sorts a copy of the
\* airline's rows (df[...].copy(), sort_values without inplace)
frame_after_analysis(f, order) == f

\* run_analysis(df): every sub-computation in turn; the first exception
\* ends the call and no result is returned
RunAnalysis ==
    /\ pc = "cleaned"
    /\ \E order \in SortOutcomes(df) :
          LET e == run_analysis_error(df, params, order)
          IN  /\ err' = e
              /\ pc' = IF e = "none" THEN "analyzed" ELSE "failed"
              /\ results' = IF e = "none" THEN run_analysis(df, params, order)
                            ELSE EmptyMap
              /\ airline_flights' =
                    IF e = "none" /\ CascadeApplies(df)
                    THEN [a \in Range(Airlines(df)) |->
                             AirlineFlights(df, a, order)]
                    ELSE EmptyMap
              /\ cascade_impacts' =
                    IF e = "none" THEN CascadeImpacts(df, params, order)
                    ELSE <<>>
              /\ df' = IF e = "none" THEN frame_after_analysis(df, order)
                       ELSE df
    /\ UNCHANGED <<raw, header_row, params, pipelineVars, date_col>>

Next == CalculateDelays \/ AddDerivedFeatures \/ RunAnalysis

Spec == Init /\ [][Next]_vars

-----------------------------------------------------------------------------
(* Specification of the feature stages on frames of one record that hold   *)
(* only a flight number: every text of up to MaxFlightNumberLen characters *)
(* over an uppercase letter, a lowercase letter and a digit                *)

MaxFlightNumberLen == 4

FlightNumberAlphabet == {"A", "b", "1"}

FlightNumberTexts(n) ==
    UNION {[1..k -> FlightNumberAlphabet] : k \in 1..n}

InitAirline ==
    /\ pc = "parsed"
    /\ raw = <<>>
    /\ header_row = 0
    /\ \E fn \in {None} \cup
                  {Some(x) : x \in FlightNumberTexts(MaxFlightNumberLen)} :
          df = [columns |-> <<FlightNumberCol>>,
                rows |-> <<[c \in {FlightNumberCol} |-> fn]>>]
    /\ params \in ParamChoices
    /\ results = EmptyMap
    /\ err = "none"
    /\ airline_flights = EmptyMap
    /\ cascade_impacts = <<>>
    /\ date_col = None
    /\ Standalone

NextAirline == CalculateDelays \/ AddDerivedFeatures

SpecAirline == InitAirline /\ [][NextAirline]_vars

-----------------------------------------------------------------------------
(* Specification of FlightAnalyzer.run_analysis on the record sets the     *)
(* caller can pass: the frames transform_data returns, with or without    *)
(* arrival data, less any subset of the derived fields                    *)

MaxFlights == 3

AnalysisParamChoices == {DefaultParams, CustomParams}

ParsedRow(fn, d, std, atd, sta, ata) ==
    [c \in {FlightNumberCol, "Date"} \cup DtCols |->
        CASE c = FlightNumberCol -> fn
          [] c = "Date" -> d
          [] c = "STD_dt" -> std
          [] c = "ATD_dt" -> atd
          [] c = "STA_dt" -> sta
          [] OTHER -> ata]

AB == Some(<<"A", "B", "1", "2">>)

CD == Some(<<"C", "D", "E", "7">>)

NoCode == Some(<<"x", "9">>)

\* day 2 is a Saturday, day 4 a Monday
AnalysisRows ==
    {ParsedRow(AB, Some(2), Some(At(2, 10, 0, 0)), Some(At(2, 10, 20, 0)),
               Some(At(2, 12, 0, 0)), Some(At(2, 12, 30, 0))),
     ParsedRow(AB, Some(2), Some(At(2, 11, 0, 0)), Some(At(2, 11, 2, 0)),
               Some(At(2, 12, 0, 0)), None),
     ParsedRow(CD, Some(4), Some(At(4, 10, 0, 0)), Some(At(4, 9, 40, 0)),
               Some(At(4, 12, 0, 0)), Some(At(4, 11, 50, 0))),
     ParsedRow(CD, Some(4), Some(At(4, 11, 0, 0)), Some(At(4, 11, 35, 0)),
               None, None),
     ParsedRow(NoCode, Some(2), Some(At(2, 10, 0, 0)), None, None, None),
     ParsedRow(CD, None, None, None, None, None)}

AnalysisColumnChoices ==
    {<<FlightNumberCol, "Date", "STD_dt", "ATD_dt", "STA_dt", "ATA_time_dt">>,
     <<FlightNumberCol, "Date", "STD_dt", "ATD_dt">>}

FramesOver(colChoices, rowChoices, n) ==
    UNION {{[columns |-> cs, rows |-> rs] :
               rs \in UNION {[1..k -> {Restrict(r, Range(cs)) : r \in rowChoices}] :
                              k \in 0..n}} :
           cs \in colChoices}

DerivedFields == {"Date", "Departure Hour", DepDelayCol, "On Time", "Airline",
                  "STD_dt", "Day of Week"}

\* the frame without the columns of D
DropCols(f, D) ==
    [columns |-> SelectSeq(f.columns, LAMBDA c : c \notin D),
     rows |-> [i \in DOMAIN f.rows |-> Restrict(f.rows[i], ColumnSet(f) \ D)]]

\* the record sets the analysis is run on with records of every kind: as
\* returned by transform_data, and without the airline or the date fields
AnalysisDropChoices == {{}, {"Airline"}, {"Date", "Day of Week"}}

AnalysisInputs(n, dropChoices, p) ==
    {DropCols(add_derived_features(calculate_delays(f), p), D) :
        f \in FramesOver(AnalysisColumnChoices, AnalysisRows, n),
        D \in dropChoices}

InitAnalysis ==
    /\ pc = "cleaned"
    /\ raw = <<>>
    /\ header_row = 0
    /\ params \in AnalysisParamChoices
    /\ df \in AnalysisInputs(MaxFlights, AnalysisDropChoices, params)
    /\ results = EmptyMap
    /\ err = "none"
    /\ airline_flights = EmptyMap
    /\ cascade_impacts = <<>>
    /\ date_col = None
    /\ Standalone

NextAnalysis == RunAnalysis

SpecAnalysis == InitAnalysis /\ [][NextAnalysis]_vars

\* the record sets of at most MaxRows records with every combination of
\* present and absent derived fields
InitFields ==
    /\ pc = "cleaned"
    /\ raw = <<>>
    /\ header_row = 0
    /\ params \in AnalysisParamChoices
    /\ df \in AnalysisInputs(MaxRows, SUBSET DerivedFields, params)
    /\ results = EmptyMap
    /\ err = "none"
    /\ airline_flights = EmptyMap
    /\ cascade_impacts = <<>>
    /\ date_col = None
    /\ Standalone

NextFields == RunAnalysis

SpecFields == InitFields /\ [][NextFields]_vars

-----------------------------------------------------------------------------
(* Specification of the cascade analysis on the frames transform_data      *)
(* returns for flights of two airlines                                     *)

CascadeRows ==
    {ParsedRow(AB, Some(2), Some(At(2, h, 0, 0)),
               IF m < 0 THEN None ELSE Some(At(2, h, m, 0)), None, None) :
        h \in {10, 11}, m \in {5, 15, 20}}
    \cup
    {ParsedRow(AB, Some(2), Some(At(2, 12, 0, 0)), Some(At(2, 12, 30, 0)),
               None, None),
     ParsedRow(AB, Some(2), Some(At(2, 10, 0, 0)), None, None, None),
     ParsedRow(AB, None, None, None, None, None),
     ParsedRow(CD, Some(2), Some(At(2, 10, 0, 0)), Some(At(2, 10, 20, 0)),
               None, None),
     ParsedRow(CD, Some(2), Some(At(2, 11, 0, 0)), Some(At(2, 11, 5, 0)),
               None, None),
     ParsedRow(NoCode, Some(2), Some(At(2, 10, 0, 0)), Some(At(2, 10, 20, 0)),
               None, None)}

CascadeColumnChoices == {<<FlightNumberCol, "Date", "STD_dt", "ATD_dt">>}

InitCascade ==
    /\ pc = "cleaned"
    /\ raw = <<>>
    /\ header_row = 0
    /\ params \in AnalysisParamChoices
    /\ \E f \in FramesOver(CascadeColumnChoices, CascadeRows, MaxFlights) :
          df = add_derived_features(calculate_delays(f), params)
    /\ results = EmptyMap
    /\ err = "none"
    /\ airline_flights = EmptyMap
    /\ cascade_impacts = <<>>
    /\ date_col = None
    /\ Standalone

NextCascade == RunAnalysis

SpecCascade == InitCascade /\ [][NextCascade]_vars

-----------------------------------------------------------------------------
(* DataProcessor.transform_data, from the raw sheet to the removal of the   *)
(* repeated headers (lines 32-45).  A raw sheet is a sequence of rows, a   *)
(* row a sequence of cells, a cell None or Some(text).                     *)

HeaderWindow == 10

\* str.contains('Flight Number', case=False) over the texts of the model:
\* the texts that hold the marker in some letter case
MarkerTexts == {"Flight Number", "flight number", "FLIGHT NUMBER"}

ContainsMarker(cell) == notna(cell) /\ Val(cell) \in MarkerTexts

RowHasMarker(row) == \E j \in DOMAIN row : ContainsMarker(row[j])

\* df_raw.dropna(how='all')
DropEmptyRows(sheet) ==
    SelectSeq(sheet, LAMBDA row : \E j \in DOMAIN row : notna(row[j]))

\* the mutant scans every row of the sheet
Scanned_all_rows(sheet) == sheet

\* the rows _find_header_row looks at
Scanned(sheet) ==
    SubSeq(sheet, 1, IF Len(sheet) < HeaderWindow THEN Len(sheet)
                     ELSE HeaderWindow)

\* _find_header_row, as a 0-based row index
find_header_row(sheet) ==
    LET hits == {i \in DOMAIN Scanned(sheet) : RowHasMarker(sheet[i])}
    IN  IF hits = {} THEN 0
        ELSE (CHOOSE i \in hits : \A j \in hits : i <= j) - 1

\* df.iloc[header_row].fillna('').tolist()
HeaderNames(sheet, h) ==
    [j \in DOMAIN sheet[h + 1] |->
        IF isna(sheet[h + 1][j]) THEN "" ELSE Val(sheet[h + 1][j])]

\* the position of the column of the given name (0 when there is none)
ColumnIndex(names, c) ==
    IF \E j \in DOMAIN names : names[j] = c
    THEN CHOOSE j \in DOMAIN names :
            names[j] = c /\ \A k \in 1..(j - 1) : names[k] # c
    ELSE 0

\* the exception the first part of transform_data raises, "none" when it
\* goes on: iloc on a sheet without rows is an IndexError, and the lookup
\* cleaned_df['Flight Number'] a KeyError when no column has that name
transform_head_error(sheet) ==
    LET d == DropEmptyRows(sheet)
    IN  IF d = <<>> THEN "IndexError"
        ELSE IF ColumnIndex(HeaderNames(d, find_header_row(d)),
                            FlightNumberCol) = 0
             THEN "KeyError"
        ELSE "none"

\* the mutant compares as the header search does, in any letter case
IsRepeatedHeader_any_case(cell) == ContainsMarker(cell)

\* the comparison of line 45: the cell is the text 'Flight Number' itself
IsRepeatedHeader(cell) == cell = Some(FlightNumberCol)

\* cleaned_df[cleaned_df['Flight Number'] != 'Flight Number'], the rows
\* still positional (NaN != text is True: the row is kept)
transform_head(sheet) ==
    LET d == DropEmptyRows(sheet)
        h == find_header_row(d)
        names == HeaderNames(d, h)
        fn == ColumnIndex(names, FlightNumberCol)
    IN  [columns |-> names,
         rows |-> SelectSeq(SubSeq(d, h + 2, Len(d)),
                            LAMBDA row : ~IsRepeatedHeader(row[fn]))]

-----------------------------------------------------------------------------
(* DataProcessor._clean_columns.  Column names are texts; the frame is the *)
(* positional one transform_head returns.                                  *)

\* seen[col] when column i is visited: the earlier columns of the same name
\* (the loop reads the names as they were before any renaming)
SeenBefore(cols, i) == Cardinality({j \in 1..(i - 1) : cols[j] = cols[i]})

\* a later occurrence: the mutant's counter starts at 2
DuplicateName_from_two(col, k) ==
    IF col # "" THEN col \o ToString(k + 1) ELSE "unnamed" \o ToString(k + 1)

\* a later occurrence: f"{col}{seen[col]}" if col else f"unnamed{seen[col]}"
DuplicateName(col, k) ==
    IF col # "" THEN col \o ToString(k) ELSE "unnamed" \o ToString(k)

\* a first occurrence: the mutant leaves the blank name as it is
FirstName_blank_kept(col, i) == col

\* a first occurrence: a blank name becomes f"date_col_{i}", i from 0
FirstName(col, i) == IF col = "" THEN "date_col_" \o ToString(i) ELSE col

\* the renamed column list (lines 77-87)
RenamedColumns(cols) ==
    [i \in DOMAIN cols |->
        IF SeenBefore(cols, i) > 0
        THEN DuplicateName(cols[i], SeenBefore(cols, i))
        ELSE FirstName(cols[i], i - 1)]

\* df.dropna(axis=1, how='all'): the positions of the columns that hold a
\* value in some row (none when the frame has no rows)
KeptColumns(f) ==
    {j \in DOMAIN f.columns : \E i \in DOMAIN f.rows : notna(f.rows[i][j])}

\* the subsequence of s at the positions of K, in order
RECURSIVE Pick(_, _, _)
Pick(s, K, j) ==
    IF j > Len(s) THEN <<>>
    ELSE (IF j \in K THEN <<s[j]>> ELSE <<>>) \o Pick(s, K, j + 1)

clean_columns(f) ==
    LET K == KeptColumns(f)
    IN  [columns |-> Pick(RenamedColumns(f.columns), K, 1),
         rows |-> [i \in DOMAIN f.rows |-> Pick(f.rows[i], K, 1)]]

\* cleaned_df = self._clean_columns(cleaned_df)  (transform_data, line 48)
CleanColumns ==
    /\ pc = "filtered"
    /\ df' = clean_columns(df)
    /\ pc' = "columns"
    /\ UNCHANGED <<raw, header_row, params, results, err, airline_flights,
                   cascade_impacts, pipelineVars, date_col>>

-----------------------------------------------------------------------------
(* Specification of the first part of transform_data on raw sheets: some   *)
(* title rows, then up to MaxBodyRows rows of the kinds an export holds    *)

MaxLeadRows == 10

MaxBodyRows == 4

BlankRow == <<None, None, None>>

TitleRow == <<Some("Flight report"), None, None>>

HeaderRow == <<Some("Flight Number"), None, Some("STD")>>

LowerCaseHeaderRow == <<Some("flight number"), None, Some("STD")>>

DataRow == <<Some("AB12"), Some("05-Jan-24"), Some("10:00 AM")>>

RawRowKinds == {BlankRow, TitleRow, HeaderRow, LowerCaseHeaderRow, DataRow}

RawSheets ==
    {[i \in 1..k |-> TitleRow] \o body :
        k \in 0..MaxLeadRows,
        body \in UNION {[1..n -> RawRowKinds] : n \in 0..MaxBodyRows}}

InitTransform ==
    /\ pc = "raw"
    /\ raw \in RawSheets
    /\ header_row = 0
    /\ df = EmptyFrame
    /\ params = DefaultParams
    /\ results = EmptyMap
    /\ err = "none"
    /\ airline_flights = EmptyMap
    /\ cascade_impacts = <<>>
    /\ date_col = None
    /\ Standalone

TransformData ==
    /\ pc = "raw"
    /\ LET d == DropEmptyRows(raw)
           e == transform_head_error(raw)
       IN  /\ header_row' = IF d = <<>> THEN 0 ELSE find_header_row(d)
           /\ err' = e
           /\ pc' = IF e = "none" THEN "filtered" ELSE "failed"
           /\ df' = IF e = "none" THEN transform_head(raw) ELSE EmptyFrame
    /\ UNCHANGED <<raw, params, results, airline_flights, cascade_impacts,
                   pipelineVars, date_col>>

NextTransform == TransformData \/ CleanColumns

SpecTransform == InitTransform /\ [][NextTransform]_vars

-----------------------------------------------------------------------------
(* Specification of the schema normalization (transform_data, lines 32-48) *)
(* on sheets that start with their header row: headers with blank,        *)
(* repeated and digit-ended names, rows with missing cells and repeated   *)
(* header rows                                                            *)

MaxCols == 3

MaxTableRows == 2

HeaderVocabulary == {"", "A", "A1"}

FirstColumnNames == {FlightNumberCol, "STD"}

ColumnHeaders ==
    {<<first>> \o rest :
        first \in FirstColumnNames,
        rest \in UNION {[1..k -> HeaderVocabulary] : k \in 0..MaxCols}}

\* the header row of the sheet: a blank name is an empty cell
HeaderCells(names) ==
    [j \in DOMAIN names |-> IF names[j] = "" THEN None ELSE Some(names[j])]

\* a data row with the cells of M missing
DataRowMissing(names, M) ==
    [j \in DOMAIN names |->
        IF j \in M THEN None
        ELSE IF j = 1 THEN Some("AB12") ELSE Some("v")]

\* the rows under a header: complete, with one cell missing, or the header
\* again; never entirely empty
TableRowKinds(names) ==
    {r \in {DataRowMissing(names, {})}
           \cup {DataRowMissing(names, {j}) : j \in DOMAIN names}
           \cup {HeaderCells(names)} :
        \E j \in DOMAIN r : notna(r[j])}

\* the sheets with the given header row
ColumnSheets(names) ==
    {<<HeaderCells(names)>> \o body :
        body \in UNION {[1..n -> TableRowKinds(names)] : n \in 0..MaxTableRows}}

InitColumns ==
    /\ pc = "raw"
    /\ \E names \in ColumnHeaders : raw \in ColumnSheets(names)
    /\ header_row = 0
    /\ df = EmptyFrame
    /\ params = DefaultParams
    /\ results = EmptyMap
    /\ err = "none"
    /\ airline_flights = EmptyMap
    /\ cascade_impacts = <<>>
    /\ date_col = None
    /\ Standalone

NextColumns == TransformData \/ CleanColumns

SpecColumns == InitColumns /\ [][NextColumns]_vars

-----------------------------------------------------------------------------
(* DataProcessor._find_date_column and _parse_datetime_fields, on the      *)
(* positional frame _clean_columns returns.  Cells are texts; the parsers  *)
(* of pandas are given by what they do on the texts of the model.          *)

SampleSize == 10

\* re.search(r'\d{1,2}-[A-Za-z]{3}-\d{2,4}', text): the texts with a match
DatePatternTexts == {"05-Jan-24", "06-Jan-24", "31-Feb-24"}

MatchesDatePattern(text) == text \in DatePatternTexts

\* 'date_col' in col
ContainsDateCol(col) ==
    \E i \in 1..(Len(col) - 7) : SubSeq(col, i, i + 7) = "date_col"

\* the columns that carry the label col
Positions(f, col) == {j \in DOMAIN f.columns : f.columns[j] = col}

\* the mutant samples every value of the column
SampleValues_all(f, j) ==
    IF Cardinality(Positions(f, f.columns[j])) = 1
    THEN LET present == SelectSeq([i \in DOMAIN f.rows |-> f.rows[i][j]],
                                  notna)
         IN  [i \in DOMAIN present |-> Val(present[i])]
    ELSE [k \in 1..Cardinality(Positions(f, f.columns[j])) |-> f.columns[j]]

\* the values the loop of line 122 visits for column j:
\* df[col].dropna().astype(str).head(10) is a Series when one column
\* carries the label, iterated by value; when several columns carry it,
\* df[col] is a DataFrame, and iterating a DataFrame yields its labels
SampleValues(f, j) ==
    IF Cardinality(Positions(f, f.columns[j])) = 1
    THEN LET present == SelectSeq([i \in DOMAIN f.rows |-> f.rows[i][j]],
                                  notna)
             n == IF Len(present) < SampleSize THEN Len(present)
                  ELSE SampleSize
         IN  [i \in 1..n |-> Val(present[i])]
    ELSE [k \in 1..Cardinality(Positions(f, f.columns[j])) |-> f.columns[j]]

\* the columns whose sample has a match of the date pattern
PatternColumns(f) ==
    {j \in DOMAIN f.columns :
        \E k \in DOMAIN SampleValues(f, j) :
            MatchesDatePattern(SampleValues(f, j)[k])}

\* potential_cols of line 126
PotentialColumns(f) ==
    {j \in DOMAIN f.columns :
        ContainsDateCol(f.columns[j]) \/ f.columns[j] = ""}

\* the mutant returns the last column with a match
First_last(J) == CHOOSE j \in J : \A k \in J : k <= j

First(J) == CHOOSE j \in J : \A k \in J : j <= k

\* _find_date_column: the label it returns, None for None
find_date_column(f) ==
    IF PatternColumns(f) # {} THEN Some(f.columns[First(PatternColumns(f))])
    ELSE IF PotentialColumns(f) # {}
         THEN Some(f.columns[First(PotentialColumns(f))])
    ELSE IF Len(f.columns) > 2 THEN Some(f.columns[3])
    ELSE None

\* "if date_col:": None and the empty label are both false
Truthy(col) == notna(col) /\ Val(col) # ""

\* pd.to_datetime(cell, errors='coerce'), as a day number: 31 February is
\* no date, and neither is a text that is not a date
to_date(cell) ==
    IF isna(cell) THEN None
    ELSE CASE Val(cell) = "05-Jan-24" -> Some(2)
           [] Val(cell) = "06-Jan-24" -> Some(3)
           [] OTHER -> None

\* Series.astype(str): a missing cell becomes the text 'nan'
astype_str(cell) == IF isna(cell) THEN "nan" ELSE Val(cell)

\* the time of day a time text parses to, in seconds after midnight
to_time(text) ==
    CASE text = "10:00 AM" -> Some(10 * SecondsPerHour)
      [] text = "10:20 AM" -> Some(10 * SecondsPerHour + 20 * 60)
      [] OTHER -> None

\* str.extract(r'Landed\s*([0-9:]+\s*[APM]{2})', expand=False)
extract_landed(cell) ==
    IF isna(cell) THEN None
    ELSE CASE Val(cell) = "Landed 10:20 AM" -> Some("10:20 AM")
           [] Val(cell) = "Landed 10:00 AM" -> Some("10:00 AM")
           [] Val(cell) = "Landed --" -> None
           [] OTHER -> None

\* the mutant combines the time of a row without a date with day 0
to_timestamp_undated(date, cell) ==
    LET t == to_time(astype_str(cell))
    IN  IF isna(t) THEN None
        ELSE Some((IF isna(date) THEN 0 ELSE Val(date)) * SecondsPerDay
                  + Val(t))

\* pd.to_datetime(Date.dt.strftime('%Y-%m-%d') + ' ' + col.astype(str),
\* errors='coerce') for one row: NaT formats to NaN, NaN + text is NaN
to_timestamp(date, cell) ==
    LET t == to_time(astype_str(cell))
    IN  IF isna(date) \/ isna(t) THEN None
        ELSE Some(Val(date) * SecondsPerDay + Val(t))

\* df[col] when one column carries the label: one cell per row
Series(f, col) ==
    [i \in DOMAIN f.rows |->
        f.rows[i][CHOOSE j \in Positions(f, col) : TRUE]]

\* df[col] = values: in place when the label exists, else a new last column
AssignCol(f, col, values) ==
    IF Positions(f, col) # {}
    THEN [columns |-> f.columns,
          rows |-> [i \in DOMAIN f.rows |->
                      [j \in DOMAIN f.columns |->
                          IF f.columns[j] = col THEN values[i]
                          ELSE f.rows[i][j]]]]
    ELSE [columns |-> Append(f.columns, col),
          rows |-> [i \in DOMAIN f.rows |-> Append(f.rows[i], values[i])]]

\* lines 111-114 for one time column
WithTimestamp(f, col) ==
    IF Positions(f, col) # {}
    THEN AssignCol(f, col \o "_dt",
                   [i \in DOMAIN f.rows |->
                       to_timestamp(Series(f, "Date")[i], Series(f, col)[i])])
    ELSE f

\* the exception _parse_datetime_fields raises, "none" when it returns:
\* pd.to_datetime of a DataFrame (a label carried by several columns)
\* needs year, month and day columns and raises ValueError
parse_datetime_fields_error(f) ==
    LET col == find_date_column(f)
    IN  IF Truthy(col) /\ Cardinality(Positions(f, Val(col))) > 1
        THEN "ValueError"
        ELSE "none"

parse_datetime_fields(f) ==
    LET col == find_date_column(f)
    IN  IF ~Truthy(col) THEN f
        ELSE LET f1 == AssignCol(f, "Date",
                           [i \in DOMAIN f.rows |->
                               to_date(Series(f, Val(col))[i])])
                 f2 == IF Positions(f1, "ATA") # {}
                       THEN AssignCol(f1, "ATA_time",
                                [i \in DOMAIN f1.rows |->
                                    extract_landed(Series(f1, "ATA")[i])])
                       ELSE f1
             IN  WithTimestamp(WithTimestamp(WithTimestamp(WithTimestamp(
                     f2, "STD"), "ATD"), "STA"), "ATA_time")

\* cleaned_df = self._parse_datetime_fields(cleaned_df)  (line 51)
ParseDatetimeFields ==
    /\ pc = "columns"
    /\ LET e == parse_datetime_fields_error(df)
       IN  /\ date_col' = find_date_column(df)
           /\ err' = e
           /\ pc' = IF e = "none" THEN "dated" ELSE "failed"
           /\ df' = IF e = "none" THEN parse_datetime_fields(df) ELSE df
    /\ UNCHANGED <<raw, header_row, params, results, airline_flights,
                   cascade_impacts, config_input, steps, source, ran,
                   report_written>>

-----------------------------------------------------------------------------
(* Specifications of transform_data up to the date and time parsing        *)
(* (lines 32-51), on sheets that start with their header row:              *)
(* SpecDateColumn on headers of every shape over columns of sample values, *)
(* SpecDates on a schedule table with a date column, a scheduled time and  *)
(* an arrival status                                                       *)

MaxSampleRows == 10

DateHeaders ==
    {<<FlightNumberCol>> \o rest :
        rest \in UNION {[1..k -> HeaderVocabulary] : k \in 0..MaxCols}}

\* a row of plain values, the cell of column blank missing (0: none is)
SampleRow(names, blank) ==
    [j \in DOMAIN names |->
        IF j = 1 THEN Some("AB12")
        ELSE IF j = blank THEN None ELSE Some("v")]

\* a row with a date in the columns of D
DateRow(names, D) ==
    [j \in DOMAIN names |->
        IF j = 1 THEN Some("AB12")
        ELSE IF j \in D THEN Some("05-Jan-24") ELSE Some("v")]

\* the header, up to MaxSampleRows equal rows of plain values, then at
\* most one row with dates
SampleSheets(names) ==
    {<<HeaderCells(names)>> \o [i \in 1..k |-> SampleRow(names, blank)] \o last :
        k \in 0..MaxSampleRows,
        blank \in {0} \cup (2..Len(names)),
        last \in {<<>>} \cup {<<DateRow(names, D)>> :
                                 D \in (SUBSET (2..Len(names))) \ {{}}}}

ScheduleHeader == <<FlightNumberCol, "", "STD", "ATA">>

ScheduleRows ==
    {<<Some("AB12"), date, std, ata>> :
        date \in {None, Some("05-Jan-24"), Some("31-Feb-24"), Some("v")},
        std \in {None, Some("10:00 AM"), Some("--")},
        ata \in {None, Some("Landed 10:20 AM"), Some("Scheduled")}}

ScheduleSheets ==
    {<<HeaderCells(ScheduleHeader)>> \o body :
        body \in UNION {[1..n -> ScheduleRows] : n \in 0..MaxTableRows}}

InitDateColumn ==
    /\ pc = "raw"
    /\ \E names \in DateHeaders : raw \in SampleSheets(names)
    /\ header_row = 0
    /\ df = EmptyFrame
    /\ params = DefaultParams
    /\ results = EmptyMap
    /\ err = "none"
    /\ airline_flights = EmptyMap
    /\ cascade_impacts = <<>>
    /\ date_col = None
    /\ Standalone

NextDateColumn == TransformData \/ CleanColumns \/ ParseDatetimeFields

SpecDateColumn == InitDateColumn /\ [][NextDateColumn]_vars

InitDates ==
    /\ pc = "raw"
    /\ raw \in ScheduleSheets
    /\ header_row = 0
    /\ df = EmptyFrame
    /\ params = DefaultParams
    /\ results = EmptyMap
    /\ err = "none"
    /\ airline_flights = EmptyMap
    /\ cascade_impacts = <<>>
    /\ date_col = None
    /\ Standalone

NextDates == TransformData \/ CleanColumns \/ ParseDatetimeFields

SpecDates == InitDates /\ [][NextDates]_vars

-----------------------------------------------------------------------------
(* FlightDataPipeline.run_pipeline.  The steps are taken in the fixed      *)
(* order of the code; a step makes the component calls whose results are   *)
(* still missing, then its own.  The frames themselves are modelled by the *)
(* specifications above: here a call either returns or raises, as the      *)
(* source file decides.  The components are taken to be initialized.       *)

StepNames == {"extract", "transform", "analyze", "visualize", "dashboard"}

\* the source file: absent, a well-formed export, an export without the
\* "Flight Number" header (transform_data raises KeyError), an export
\* without actual departures (run_analysis raises KeyError)
SourceKinds == {"missing", "present", "no_marker", "no_actual_departures"}

\* DataProcessor.extract_data: the existence check comes before the read
extract_data_error(src) ==
    IF src = "missing" THEN "FileNotFoundError" ELSE "none"

\* the exception a component call raises on the given source
CallError(call, src) ==
    CASE call = "extract_data" -> extract_data_error(src)
      [] call = "transform_data" ->
            IF src = "no_marker" THEN "KeyError" ELSE "none"
      [] call = "run_analysis" ->
            IF src = "no_actual_departures" THEN "KeyError" ELSE "none"
      [] OTHER -> "none"

\* raw_data, cleaned_data, analysis_results are None until the call that
\* sets them has returned
IsNone(call) == call \notin Range(ran)

ExtractIfNone == IF IsNone("extract_data") THEN <<"extract_data">> ELSE <<>>

TransformIfNone ==
    IF IsNone("transform_data") THEN <<"transform_data">> ELSE <<>>

AnalyzeIfNone == IF IsNone("run_analysis") THEN <<"run_analysis">> ELSE <<>>

\* the calls of each step, in order (lines 148-202)
ExtractCalls == <<"extract_data">>

\* the mutant's transformation step reads the source again
TransformCalls_extract_again == <<"extract_data", "transform_data">>

TransformCalls == ExtractIfNone \o <<"transform_data">>

AnalyzeCalls ==
    (IF IsNone("transform_data")
     THEN ExtractIfNone \o <<"transform_data">> ELSE <<>>)
    \o <<"run_analysis">>

PrerequisiteCalls ==
    IF IsNone("transform_data") \/ IsNone("run_analysis")
    THEN ExtractIfNone \o TransformIfNone \o AnalyzeIfNone
    ELSE <<>>

VisualizeCalls == PrerequisiteCalls \o <<"generate_reports">>

DashboardCalls == PrerequisiteCalls \o <<"create_dashboard">>

\* the position of the first call that raises, 0 when all return
FirstFailure(calls) ==
    LET bad == {i \in DOMAIN calls : CallError(calls[i], source) # "none"}
    IN  IF bad = {} THEN 0 ELSE CHOOSE i \in bad : \A j \in bad : i <= j

\* the mutant's handler logs the exception and goes on to the report
OnException_swallowed(e) == "p_report"

\* except Exception as e: log, then raise (lines 211-215)
OnException(e) == "raised"

\* one step of run_pipeline: skipped when not asked for; otherwise its
\* calls run in order until one raises, and the step's entry of the
\* results dictionary is set when all have returned
PipelineStep(step, here, next, calls, key) ==
    /\ pc = here
    /\ IF step \notin steps
       THEN /\ pc' = next
            /\ UNCHANGED <<ran, err, results>>
       ELSE LET k == FirstFailure(calls)
                returned == IF k = 0 THEN calls ELSE SubSeq(calls, 1, k - 1)
                e == IF k = 0 THEN "none" ELSE CallError(calls[k], source)
            IN  /\ ran' = ran \o returned
                /\ err' = e
                /\ pc' = IF e = "none" THEN next ELSE OnException(e)
                /\ results' = IF e = "none"
                              THEN [x \in DOMAIN results \cup {key} |-> TRUE]
                              ELSE results
    /\ UNCHANGED <<raw, header_row, df, params, airline_flights,
                   cascade_impacts, config_input, steps, source,
                   report_written, date_col>>

StepExtract ==
    PipelineStep("extract", "p_extract", "p_transform", ExtractCalls,
                 "raw_data_shape")

StepTransform ==
    PipelineStep("transform", "p_transform", "p_analyze", TransformCalls,
                 "cleaned_data_shape")

StepAnalyze ==
    PipelineStep("analyze", "p_analyze", "p_visualize", AnalyzeCalls,
                 "analysis")

StepVisualize ==
    PipelineStep("visualize", "p_visualize", "p_dashboard", VisualizeCalls,
                 "visualizations")

StepDashboard ==
    PipelineStep("dashboard", "p_dashboard", "p_report", DashboardCalls,
                 "dashboard_path")

\* self._generate_pipeline_report(results); return results
GenerateReport ==
    /\ pc = "p_report"
    /\ report_written' = TRUE
    /\ pc' = "completed"
    /\ UNCHANGED <<raw, header_row, df, params, results, err, airline_flights,
                   cascade_impacts, config_input, steps, source, ran,
                   date_col>>

InitPipeline ==
    /\ pc = "p_extract"
    /\ raw = <<>>
    /\ header_row = 0
    /\ df = EmptyFrame
    /\ params = DefaultParams
    /\ results = EmptyMap
    /\ err = "none"
    /\ airline_flights = EmptyMap
    /\ cascade_impacts = <<>>
    /\ date_col = None
    /\ config_input = NoConfigFile
    /\ steps \in SUBSET StepNames
    /\ source \in SourceKinds
    /\ ran = <<>>
    /\ report_written = FALSE

NextPipeline ==
    \/ StepExtract
    \/ StepTransform
    \/ StepAnalyze
    \/ StepVisualize
    \/ StepDashboard
    \/ GenerateReport

SpecPipeline == InitPipeline /\ [][NextPipeline]_vars

-----------------------------------------------------------------------------
(* EnhancedFlightDataPipeline.run_pipeline (main.py).  The steps are taken *)
(* in the fixed order of the code; processor, df_raw, df_clean and         *)
(* analysis_results are local names that are bound only by the step that   *)
(* assigns them.                                                           *)

\* the local names bound so far: processor and df_raw by the extraction,
\* df_clean by the transformation, analysis_results by the analysis
BoundNames ==
    (IF \E i \in DOMAIN ran : ran[i] = "extract_data"
     THEN {"processor", "df_raw"} ELSE {})
    \cup (IF \E i \in DOMAIN ran : ran[i] = "transform_data"
          THEN {"df_clean"} ELSE {})
    \cup (IF \E i \in DOMAIN ran : ran[i] = "run_analysis"
          THEN {"analysis_results"} ELSE {})

\* the mutant's names all start as None and are passed on as they are
ReadError_none_default(names) == "none"

\* reading a local name that no statement has assigned yet
ReadError(names) ==
    IF names \subseteq BoundNames THEN "none" ELSE "UnboundLocalError"

\* one step of run_pipeline: skipped when not asked for; otherwise the
\* arguments of its call are read, the call is made, and its entry of the
\* results dictionary is set; an exception leaves run_pipeline
MainStep(step, here, next, names, call, keys) ==
    /\ pc = here
    /\ IF step \notin steps
       THEN /\ pc' = next
            /\ UNCHANGED <<ran, err, results>>
       ELSE LET e == IF ReadError(names) # "none" THEN ReadError(names)
                     ELSE CallError(call, source)
            IN  /\ err' = e
                /\ ran' = IF e = "none" THEN Append(ran, call) ELSE ran
                /\ pc' = IF e = "none" THEN next ELSE "raised"
                /\ results' = IF e = "none"
                              THEN [x \in DOMAIN results \cup keys |-> TRUE]
                              ELSE results
    /\ UNCHANGED <<raw, header_row, df, params, airline_flights,
                   cascade_impacts, config_input, steps, source,
                   report_written, date_col>>

\* lines 262-266
MainExtract ==
    MainStep("extract", "m_extract", "m_transform", {}, "extract_data", {})

\* lines 269-273
MainTransform ==
    MainStep("transform", "m_transform", "m_analyze", {"processor", "df_raw"},
             "transform_data", {"transformed_data"})

\* lines 275-281
MainAnalyze ==
    MainStep("analyze", "m_analyze", "m_dashboard", {"df_clean"},
             "run_analysis", {"analysis"})

\* lines 284-290: the dashboard, then return results
MainDashboard ==
    MainStep("dashboard", "m_dashboard", "returned",
             {"df_clean", "analysis_results"}, "create_dashboard",
             {"dashboard_path"})

\* the step lists main() passes: any non-empty choice of --steps (the
\* default and --dashboard-only are one of them)
InitMain ==
    /\ pc = "m_extract"
    /\ raw = <<>>
    /\ header_row = 0
    /\ df = EmptyFrame
    /\ params = DefaultParams
    /\ results = EmptyMap
    /\ err = "none"
    /\ airline_flights = EmptyMap
    /\ cascade_impacts = <<>>
    /\ date_col = None
    /\ config_input = NoConfigFile
    /\ steps \in (SUBSET StepNames) \ {{}}
    /\ source \in SourceKinds
    /\ ran = <<>>
    /\ report_written = FALSE

NextMain == MainExtract \/ MainTransform \/ MainAnalyze \/ MainDashboard

SpecMain == InitMain /\ [][NextMain]_vars

-----------------------------------------------------------------------------
(* Configuration loading: Config.load (src/config.py) and                  *)
(* FlightDataPipeline._load_config.  A configuration is a mapping from its *)
(* top-level keys to values; the value of "analysis_params" is itself a    *)
(* mapping.  A configuration input is what the path leads to.              *)

DefaultPort == 8050

DefaultConfig ==
    [k \in {"analysis_params", "dashboard_port"} |->
        IF k = "analysis_params" THEN DefaultParams ELSE DefaultPort]

\* dict.update: the keys of the user mapping replace those of the target,
\* nested mappings included
Update(config, user) ==
    [k \in DOMAIN config \cup DOMAIN user |->
        IF k \in DOMAIN user THEN user[k] ELSE config[k]]

\* the JSON objects a user file holds
UserObjects ==
    {EmptyMap,
     [k \in {"dashboard_port"} |-> 9000],
     [k \in {"analysis_params"} |-> CustomParams],
     [k \in {"analysis_params"} |-> PartialParams],
     [k \in {"analysis_params"} |-> [j \in {"delay_threshold"} |-> 20]],
     [k \in {"analysis_params", "dashboard_port"} |->
         IF k = "analysis_params"
         THEN [j \in {"cascade_factor", "simulation_delay_reduction"} |->
                  IF j = "cascade_factor" THEN 50 ELSE 10]
         ELSE 9000]}

\* no path, a path to no file, a file that is not JSON, a JSON value that
\* is not an object (a list, a number, a text), a JSON object
ConfigInputs ==
    {[kind |-> k, object |-> <<>>] :
        k \in {"no_path", "missing_file", "invalid_json", "not_object"}}
    \cup {[kind |-> "object", object |-> o] : o \in UserObjects}

\* Config.load
load(input) ==
    IF input.kind = "no_path" THEN DefaultConfig
    ELSE IF input.kind = "missing_file" THEN DefaultConfig
    ELSE IF input.kind = "invalid_json" THEN DefaultConfig  \* JSONDecodeError
    ELSE IF input.kind = "not_object" THEN DefaultConfig    \* update() raises
    ELSE Update(DefaultConfig, input.object)

\* FlightDataPipeline._load_config
load_config(input) ==
    IF input.kind \in {"no_path", "missing_file"} THEN DefaultConfig
    ELSE IF input.kind \in {"invalid_json", "not_object"}
         THEN DefaultConfig                   \* except Exception: defaults
    ELSE Update(DefaultConfig, input.object)

\* the configuration is loaded and handed to DataProcessor and
\* FlightAnalyzer, which keep config['analysis_params']
LoadConfig ==
    /\ pc = "config"
    /\ \E config \in {load(config_input), load_config(config_input)} :
          params' = config["analysis_params"]
    /\ pc' = "parsed"
    /\ UNCHANGED <<raw, header_row, df, results, err, airline_flights,
                   cascade_impacts, pipelineVars, date_col>>

InitConfig ==
    /\ pc = "config"
    /\ raw = <<>>
    /\ header_row = 0
    /\ df \in ParsedFrames(MaxRows)
    /\ params = EmptyMap
    /\ results = EmptyMap
    /\ err = "none"
    /\ airline_flights = EmptyMap
    /\ cascade_impacts = <<>>
    /\ date_col = None
    /\ config_input \in ConfigInputs
    /\ steps = {}
    /\ source = "present"
    /\ ran = <<>>
    /\ report_written = FALSE

NextConfig ==
    \/ LoadConfig
    \/ CalculateDelays
    \/ AddDerivedFeatures
    \/ RunAnalysis

SpecConfig == InitConfig /\ [][NextConfig]_vars

-----------------------------------------------------------------------------
(* Specification of FlightAnalyzer._analyze_peak_times on record sets with *)
(* flights in up to MaxHours departure hours                               *)

MaxHours == 6

\* the flights of one hour, each a flight number and a delay in minutes:
\* none; one flight; three flights whose mean delay is not a multiple of
\* 0.01; one flight without a delay; a record without a flight number and
\* an early flight
HourKinds ==
    {<<>>,
     <<<<AB, Some(5)>>>>,
     <<<<AB, Some(10)>>, <<CD, Some(10)>>, <<AB, Some(11)>>>>,
     <<<<AB, None>>>>,
     <<<<None, Some(20)>>, <<CD, Some(-5)>>>>}

\* the parsed records of hour h
HourRows(h, kind) ==
    [i \in DOMAIN kind |->
        ParsedRow(kind[i][1], Some(2), Some(At(2, h, 0, 0)),
                  IF isna(kind[i][2]) THEN None
                  ELSE Some(At(2, h, Val(kind[i][2]), 0)),
                  None, None)]

\* the records of the hours h, h - 1, ..., 1 (the sheet need not be in
\* schedule order)
RECURSIVE HoursRows(_, _)
HoursRows(choice, h) ==
    IF h = 0 THEN <<>>
    ELSE HourRows(h, choice[h]) \o HoursRows(choice, h - 1)

PeakInputs(p) ==
    {add_derived_features(calculate_delays(
        [columns |-> <<FlightNumberCol, "Date", "STD_dt", "ATD_dt">>,
         rows |-> [i \in DOMAIN HoursRows(choice, MaxHours) |->
                      Restrict(HoursRows(choice, MaxHours)[i],
                               {FlightNumberCol, "Date", "STD_dt", "ATD_dt"})]]),
        p) :
        choice \in [1..MaxHours -> HourKinds]}

\* results['peak_analysis'] = self._analyze_peak_times(df)
AnalyzePeakTimes ==
    /\ pc = "cleaned"
    /\ LET e == peak_times_error(df)
       IN  /\ err' = e
           /\ pc' = IF e = "none" THEN "peaks" ELSE "failed"
           /\ results' = IF e = "none"
                         THEN [peak_analysis |-> analyze_peak_times(df)]
                         ELSE EmptyMap
    /\ UNCHANGED <<raw, header_row, df, params, airline_flights,
                   cascade_impacts, pipelineVars, date_col>>

InitPeak ==
    /\ pc = "cleaned"
    /\ raw = <<>>
    /\ header_row = 0
    /\ params = DefaultParams
    /\ df \in PeakInputs(params)
    /\ results = EmptyMap
    /\ err = "none"
    /\ airline_flights = EmptyMap
    /\ cascade_impacts = <<>>
    /\ date_col = None
    /\ Standalone

NextPeak == AnalyzePeakTimes

SpecPeak == InitPeak /\ [][NextPeak]_vars

-----------------------------------------------------------------------------
(* Properties of the feature stages (specification Spec) *)

Rows == DOMAIN df.rows

AfterDelays == pc \in {"delays", "cleaned", "analyzed", "failed"}

\* the rule for one delay field d of row i, computed from the actual
\* timestamp a and the scheduled timestamp s: present iff both are, and then
\* the signed difference, 60 ticks of the delay for 60 seconds of difference
DelayRule(i, d, a, s) ==
    /\ notna(Get(df, i, d)) <=> (notna(Get(df, i, a)) /\ notna(Get(df, i, s)))
    /\ notna(Get(df, i, d)) =>
          Val(Get(df, i, d)) * 60 =
             (Val(Get(df, i, a)) - Val(Get(df, i, s))) * TicksPerMinute
    /\ (/\ notna(Get(df, i, a))
        /\ notna(Get(df, i, s))
        /\ Val(Get(df, i, a)) - Val(Get(df, i, s)) = 15 * 60)
          => Get(df, i, d) = Some(Minutes(15))

\* C1: after _calculate_delays every record's departure delay is present
\* iff STD_dt and ATD_dt both are, and then equals (ATD_dt - STD_dt) in
\* minutes, signed, unclamped and unrounded (15 minutes apart give 15); the
\* arrival delay obeys the same rule with STA_dt and ATA_time_dt.
C1_DelayIffBothTimestamps ==
    AfterDelays =>
       \A i \in Rows :
          /\ DelayRule(i, DepDelayCol, "ATD_dt", "STD_dt")
          /\ DelayRule(i, ArrDelayCol, "ATA_time_dt", "STA_dt")

\* a record that departed 20 minutes early and arrived 30 minutes late,
\* after the delays were calculated
C1_Witness ==
    /\ pc = "delays"
    /\ \E i \in Rows :
          /\ Get(df, i, DepDelayCol) = Some(Minutes(-20))
          /\ Get(df, i, ArrDelayCol) = Some(Minutes(30))

\* C2: for every record whose departure delay is present, On Time is true
\* iff the delay is at most delay_threshold (equal to the threshold is on
\* time, anything above is not).
C2_OnTimeIffWithinThreshold ==
    pc = "cleaned" =>
       \A i \in Rows :
          notna(Get(df, i, DepDelayCol)) =>
             /\ Get(df, i, "On Time") \in {Some(TRUE), Some(FALSE)}
             /\ Get(df, i, "On Time") = Some(TRUE) <=>
                   Val(Get(df, i, DepDelayCol)) <= Minutes(params["delay_threshold"])

\* a record whose delay equals the threshold exactly, flagged on time
C2_Witness ==
    /\ pc = "cleaned"
    /\ \E i \in Rows :
          /\ Get(df, i, DepDelayCol) = Some(Minutes(params["delay_threshold"]))
          /\ Get(df, i, "On Time") = Some(TRUE)

\* C3: for every record whose departure delay is absent, the on-time flag
\* is absent (neither true nor false).
C3_OnTimeAbsentWithoutDelay ==
    pc = "cleaned" =>
       \A i \in Rows :
          isna(Get(df, i, DepDelayCol)) => isna(Get(df, i, "On Time"))

-----------------------------------------------------------------------------
(* Properties of the cascade analysis (specification SpecCascade) *)

DelayOfRow(i) == df.rows[i][DepDelayCol]

\* <<airline, position, amount>> for every position of an airline's
\* sequence whose predecessor triggers a cascade
ExpectedCascades ==
    UNION {{<<a, k, Val(DelayOfRow(airline_flights[a][k - 1]))
                    * params["cascade_factor"]>> :
               k \in {j \in 2..Len(airline_flights[a]) :
                         /\ notna(DelayOfRow(airline_flights[a][j - 1]))
                         /\ Val(DelayOfRow(airline_flights[a][j - 1]))
                               > Minutes(15)}} :
           a \in DOMAIN airline_flights}

RECURSIVE SumThird(_)
SumThird(S) ==
    IF S = {} THEN 0
    ELSE LET x == CHOOSE y \in S : TRUE IN x[3] + SumThird(S \ {x})

\* the sequence is the airline's flights, each once, in ascending order of
\* scheduled departure
IsScheduleOrder(a) ==
    LET s == airline_flights[a]
    IN  /\ Range(s) = RowsWhere(df, "Airline", Some(a))
        /\ Len(s) = Cardinality(Range(s))
        /\ \A i, j \in DOMAIN s :
              (i < j /\ notna(df.rows[s[i]]["STD_dt"])
                     /\ notna(df.rows[s[j]]["STD_dt"]))
                 => Val(df.rows[s[i]]["STD_dt"]) <= Val(df.rows[s[j]]["STD_dt"])

\* three flights of one airline, in schedule order, delayed 20, 5 and 30
\* minutes, with cascade_factor 0.4
CascadeExample ==
    /\ Len(df.rows) = 3
    /\ \A i \in 1..3 : df.rows[i]["Airline"] = df.rows[1]["Airline"]
    /\ notna(df.rows[1]["Airline"])
    /\ \A i \in 1..3 : notna(df.rows[i]["STD_dt"])
    /\ \A i \in 1..2 : Val(df.rows[i]["STD_dt"]) < Val(df.rows[i + 1]["STD_dt"])
    /\ Column(df, DepDelayCol)
          = <<Some(Minutes(20)), Some(Minutes(5)), Some(Minutes(30))>>
    /\ params["cascade_factor"] = 40

\* C4: a cascade is attributed to exactly the flights whose immediate
\* predecessor, in their airline's sequence ordered by scheduled departure,
\* has a present departure delay strictly above 15 minutes; the amount is
\* the predecessor's delay times cascade_factor; affected_flights counts
\* them, total_cascade_minutes is their sum and avg_cascade_impact their
\* mean (0 when there is none).  Delays [20, 5, 30] with factor 0.4 give 1
\* affected flight and 8.0 minutes.
C4_CascadeAttribution ==
    (pc = "analyzed" /\ CascadeApplies(df) /\ Has(df, "STD_dt")) =>
       LET res == results.cascade_analysis
           total == SumThird(ExpectedCascades)
           count == Cardinality(ExpectedCascades)
       IN  /\ \A a \in DOMAIN airline_flights : IsScheduleOrder(a)
           /\ Len(cascade_impacts) = count
           /\ \A x \in ExpectedCascades :
                 \E n \in DOMAIN cascade_impacts :
                    /\ cascade_impacts[n].row = airline_flights[x[1]][x[2]]
                    /\ cascade_impacts[n].cascade_delay = x[3]
           /\ res.affected_flights = count
           /\ res.total_cascade_minutes = total
           /\ res.avg_cascade_impact
                 = IF count = 0 THEN <<0, 1>> ELSE Rat(total, count)
           /\ CascadeExample =>
                 /\ res.affected_flights = 1
                 /\ res.total_cascade_minutes * 10 = 80 * TicksPerMinute * 100

\* the example of the claim, analysed
C4_Witness == pc = "analyzed" /\ CascadeExample

\* C5: a record without a scheduled-departure timestamp, or the only
\* flight of its airline, is never counted as an affected flight and never
\* contributes cascade minutes, and raises no error.
C5_ExcludedFromCascade ==
    pc = "analyzed" =>
       /\ err = "none"
       /\ \A n \in DOMAIN cascade_impacts :
             LET r == cascade_impacts[n].row
             IN  /\ notna(Get(df, r, "STD_dt"))
                 /\ Cardinality(RowsWhere(df, "Airline", df.rows[r]["Airline"])) > 1
       /\ \A a \in DOMAIN airline_flights :
             \A k \in 1..(Len(airline_flights[a]) - 1) :
                (\E n \in DOMAIN cascade_impacts :
                    cascade_impacts[n].row = airline_flights[a][k + 1])
                   => notna(Get(df, airline_flights[a][k], "STD_dt"))

-----------------------------------------------------------------------------
(* Properties of run_analysis (specification SpecAnalysis) *)

Max(a, b) == IF a >= b THEN a ELSE b

Scenario == results.simulation.delay_reduction_scenario

PresentDelays == Present(Column(df, DepDelayCol))

\* the delays 20, 2 and -20 minutes, in any order, with a reduction of 5
SimulationExample ==
    /\ Len(PresentDelays) = 3
    /\ Range(PresentDelays) = {Minutes(20), Minutes(2), Minutes(-20)}
    /\ params["simulation_delay_reduction"] = 5

\* C6: the simulated delay of every present delay d is max(d - reduction,
\* -15); current_avg_delay is the mean of the delays, simulated_avg_delay
\* the mean of the simulated delays, improvement their difference.  Delays
\* [20, 2, -20] with reduction 5 give [15, -3, -15], a simulated mean of -1
\* and an improvement of 5/3.
C6_Simulation ==
    (pc = "analyzed" /\ Has(df, DepDelayCol)) =>
       LET v == PresentDelays
           R == params["simulation_delay_reduction"]
           sim == [i \in DOMAIN v |-> Max(v[i] - R * 60, -15 * 60)]
           n == Len(v)
       IN  /\ Scenario.reduction_minutes = R
           /\ \A i \in DOMAIN v : SimulatedDelay(Some(v[i]), R) = Some(sim[i])
           /\ n = 0 => /\ isna(Scenario.current_avg_delay)
                       /\ isna(Scenario.simulated_avg_delay)
           /\ n > 0 =>
                 /\ notna(Scenario.current_avg_delay)
                 /\ notna(Scenario.simulated_avg_delay)
                 /\ notna(Scenario.improvement)
                 /\ Val(Scenario.current_avg_delay)[1] * n
                       = SumSeq(v) * Val(Scenario.current_avg_delay)[2]
                 /\ Val(Scenario.simulated_avg_delay)[1] * n
                       = SumSeq(sim) * Val(Scenario.simulated_avg_delay)[2]
                 /\ Val(Scenario.improvement)[1] * n
                       = (SumSeq(v) - SumSeq(sim)) * Val(Scenario.improvement)[2]
           /\ SimulationExample =>
                 /\ Range(sim) = {Minutes(15), Minutes(-3), Minutes(-15)}
                 /\ Scenario.simulated_avg_delay = Some(<<Minutes(-1), 1>>)
                 /\ Scenario.improvement = Some(Rat(Minutes(5), 3))

\* the example of the claim, analysed
C6_Witness == pc = "analyzed" /\ Has(df, DepDelayCol) /\ SimulationExample

\* C7: percent_improvement is 0 whenever the current mean delay is exactly
\* 0 and improvement / current mean x 100 otherwise; nothing is divided by
\* zero.
C7_PercentImprovement ==
    (pc = "analyzed" /\ Has(df, DepDelayCol)) =>
       LET cur == Scenario.current_avg_delay
           imp == Scenario.improvement
           pct == Scenario.percent_improvement
       IN  /\ notna(pct) => IsFinite(Val(pct))
           /\ (notna(cur) /\ Val(cur)[1] = 0) => pct = Some(<<0, 1>>)
           /\ (notna(cur) /\ Val(cur)[1] # 0) =>
                 /\ notna(pct)
                 /\ Val(pct)[1] * Val(imp)[2] * Val(cur)[1]
                       = 100 * Val(imp)[1] * Val(cur)[2] * Val(pct)[2]
           /\ isna(cur) => isna(pct)

\* delays that are not all zero and whose mean is exactly 0
C7_Witness ==
    /\ pc = "analyzed"
    /\ Has(df, DepDelayCol)
    /\ Scenario.current_avg_delay = Some(<<0, 1>>)
    /\ Minutes(20) \in Range(PresentDelays)
    /\ Scenario.percent_improvement = Some(<<0, 1>>)

\* a record set whose Departure Hour field, when it has one, is known for
\* at least one record
SomeHourKnown ==
    Has(df, "Departure Hour") => Present(Column(df, "Departure Hour")) # <<>>

\* C8: for every combination of present and absent derived fields (in a
\* record set that holds a departure hour when it has the field),
\* run_analysis returns all six sub-results without raising, a
\* sub-computation whose fields are missing giving an empty mapping.
C8_AllSubResultsForAnyFields ==
    (pc # "cleaned" /\ SomeHourKnown) =>
       /\ err = "none"
       /\ pc = "analyzed"
       /\ DOMAIN results = Range(SubResults)

\* C9: without the Airline field efficiency_metrics has no
\* airline_performance entry, and delay_analysis, the simulation,
\* on_time_performance, severe_delay_rate and peak_analysis are what they
\* are with the field.
C9_AirlineRemovalFrame ==
    (pc = "analyzed" /\ Has(df, "Airline")) =>
       LET g == DropCols(df, {"Airline"})
           eff == calculate_efficiency_metrics(g)
           delayOnly == {"on_time_performance", "severe_delay_rate"}
       IN  /\ run_analysis_error(g, params, [i \in DOMAIN g.rows |-> i]) = "none"
           /\ "airline_performance" \notin DOMAIN eff
           /\ DOMAIN eff = DOMAIN results.efficiency_metrics \cap delayOnly
           /\ \A k \in DOMAIN eff : eff[k] = results.efficiency_metrics[k]
           /\ analyze_delays(g, params) = results.delay_analysis
           /\ run_simulations(g, params) = results.simulation
           /\ analyze_peak_times(g) = results.peak_analysis

\* a record set with the Airline field, an airline_performance entry, a
\* record of unknown airline and a severe delay
C9_Witness ==
    /\ pc = "analyzed"
    /\ Has(df, "Airline")
    /\ "airline_performance" \in DOMAIN results.efficiency_metrics
    /\ "severe_delay_rate" \in DOMAIN results.efficiency_metrics
    /\ \E i \in Rows : isna(df.rows[i]["Airline"])
    /\ \E i \in Rows : notna(Get(df, i, DepDelayCol))
                       /\ Val(Get(df, i, DepDelayCol)) > Minutes(30)
    /\ DOMAIN results.peak_analysis # {}

-----------------------------------------------------------------------------
(* Properties of the first part of transform_data (specification           *)
(* SpecTransform)                                                          *)

NoMarkerScanned ==
    \A i \in DOMAIN Scanned(DropEmptyRows(raw)) :
       ~RowHasMarker(DropEmptyRows(raw)[i])

\* C10: when no scanned row of a sheet that has rows holds the "Flight
\* Number" marker, header detection returns row 0 and transform_data
\* completes without raising.
C10_NoMarkerNoCrash ==
    (pc # "raw" /\ DropEmptyRows(raw) # <<>> /\ NoMarkerScanned) =>
       (header_row = 0 /\ err = "none")

-----------------------------------------------------------------------------
(* Properties of the schema normalization (specification SpecColumns) *)

\* the step of transform_data that calls _clean_columns
CleanStep == pc = "filtered" /\ pc' = "columns"

\* the columns of the frame given to _clean_columns that hold a value
NonEmptyPositions ==
    {j \in DOMAIN df.columns : \E i \in DOMAIN df.rows : notna(df.rows[i][j])}

\* the position, in the cleaned frame, of the non-empty column j
NewPosition(j) == Cardinality({k \in NonEmptyPositions : k <= j})

\* how many earlier columns of the given frame have the name of column j
EarlierSame(j) ==
    Cardinality({i \in 1..(j - 1) : df.columns[i] = df.columns[j]})

\* C11: the column names _clean_columns produces are pairwise distinct,
\* whatever the header row (blank, repeated and digit-ended names).
C11_CleanedNamesDistinct ==
    pc = "columns" =>
        \A i, j \in DOMAIN df.columns :
            i # j => df.columns[i] # df.columns[j]

\* the table the sheet holds under its header row
InputTable == [columns |-> HeaderNames(raw, 0), rows |-> Tail(raw)]

\* already normalized: no repeated header row, no blank or duplicate name,
\* no empty column
IsNormalized(t) ==
    /\ \A j \in DOMAIN t.columns : t.columns[j] # ""
    /\ \A i, j \in DOMAIN t.columns : i # j => t.columns[i] # t.columns[j]
    /\ \A j \in DOMAIN t.columns : \E i \in DOMAIN t.rows : notna(t.rows[i][j])
    /\ \A i \in DOMAIN t.rows : t.rows[i] # HeaderCells(t.columns)

\* C12: the normalization (repeated-header removal, column renaming,
\* empty-column removal) of a table that is already normalized returns the
\* same column names and the same rows.
C12_NormalizationIdempotent ==
    (pc \in {"columns", "failed"} /\ IsNormalized(InputTable)) =>
        /\ err = "none"
        /\ df = InputTable

\* C19: in _clean_columns the first occurrence of a non-blank name keeps
\* the bare name, and its k-th later occurrence becomes the name followed
\* by k; names that occur once are unchanged.
C19_DuplicateNamesCounted ==
    [][CleanStep =>
          /\ Len(df'.columns) = Cardinality(NonEmptyPositions)
          /\ \A j \in NonEmptyPositions :
                df.columns[j] # "" =>
                    df'.columns[NewPosition(j)] =
                        IF EarlierSame(j) = 0 THEN df.columns[j]
                        ELSE df.columns[j] \o ToString(EarlierSame(j))]_vars

\* a header with three columns named "A", all kept: the third is "A2"
C19_Witness ==
    /\ pc = "columns"
    /\ Len(df.columns) = 4
    /\ HeaderNames(raw, 0) = <<FlightNumberCol, "A", "A", "A">>
    /\ df.columns = <<FlightNumberCol, "A", "A1", "A2">>

\* the names "unnamed_col_N" and "date_col_N" for the columns of a header
SyntheticNames(n) ==
    {"unnamed_col_" \o ToString(k) : k \in 0..n}
    \cup {"date_col_" \o ToString(k) : k \in 0..n}

\* C20 as stated: every blank header name becomes "unnamed_col_N" or
\* "date_col_N", and no column keeps a blank name.
C20_BlankNamesSynthetic ==
    [][CleanStep =>
          /\ \A j \in DOMAIN df'.columns : df'.columns[j] # ""
          /\ \A j \in NonEmptyPositions :
                df.columns[j] = "" =>
                    df'.columns[NewPosition(j)]
                        \in SyntheticNames(Len(df.columns))]_vars

\* C20 as amended: the first blank name becomes "date_col_N", N the
\* 0-based position of the column, the k-th later blank name becomes
\* "unnamedk", and no column keeps a blank name.
C20_BlankNamesReplaced ==
    [][CleanStep =>
          /\ \A j \in DOMAIN df'.columns : df'.columns[j] # ""
          /\ \A j \in NonEmptyPositions :
                df.columns[j] = "" =>
                    df'.columns[NewPosition(j)] =
                        IF EarlierSame(j) = 0
                        THEN "date_col_" \o ToString(j - 1)
                        ELSE "unnamed" \o ToString(EarlierSame(j))]_vars

\* a header with two blank names, both columns kept
C20_Witness ==
    /\ pc = "columns"
    /\ HeaderNames(raw, 0) = <<FlightNumberCol, "", "A", "">>
    /\ df.columns = <<FlightNumberCol, "date_col_1", "A", "unnamed1">>

-----------------------------------------------------------------------------
(* Properties of header detection (specification SpecTransform) *)

\* the rows of the raw sheet that are not entirely empty, in order
NonEmptyRows == SelectSeq(raw, LAMBDA row : \E j \in DOMAIN row : row[j] # None)

\* the rows among the first 10 of them that hold the marker in some case
MarkerRows ==
    {i \in DOMAIN NonEmptyRows : i <= HeaderWindow /\ RowHasMarker(NonEmptyRows[i])}

\* C18: _find_header_row looks only at the first 10 rows left after the
\* all-empty rows are discarded, and returns the index of the first that
\* holds "Flight Number" in any letter case; a marker that first appears in
\* the 11th or a later row is not found and the result is 0.
C18_HeaderRowWithinWindow ==
    pc # "raw" =>
        /\ MarkerRows # {} =>
              /\ header_row + 1 \in MarkerRows
              /\ \A i \in MarkerRows : header_row + 1 <= i
        /\ MarkerRows = {} => header_row = 0

\* the marker first appears in the 11th non-empty row
C18_Witness ==
    /\ pc # "raw"
    /\ Len(NonEmptyRows) > HeaderWindow
    /\ RowHasMarker(NonEmptyRows[HeaderWindow + 1])
    /\ MarkerRows = {}
    /\ header_row = 0

-----------------------------------------------------------------------------
(* Properties of run_pipeline (specification SpecPipeline) *)

\* the positions of run_pipeline's steps, in the order of the code
StepOrder ==
    <<"p_extract", "p_transform", "p_analyze", "p_visualize", "p_dashboard">>

StepAt == <<"extract", "transform", "analyze", "visualize", "dashboard">>

\* C13: when the source file does not exist, extract_data raises the
\* file-not-found error before anything is read and run_pipeline (asked for
\* at least one step) re-raises it: no transformation, analysis,
\* visualization or dashboard call is made and no report is written.
C13_MissingSourceAborts ==
    (source = "missing" /\ steps # {}) =>
        /\ ran = <<>>
        /\ ~report_written
        /\ DOMAIN results = {}
        /\ \/ pc = "raised" /\ err = "FileNotFoundError"
           \/ \E i \in DOMAIN StepOrder :
                 /\ pc = StepOrder[i]
                 /\ err = "none"
                 /\ \A j \in 1..(i - 1) : StepAt[j] \notin steps

\* the file is missing and only the dashboard is asked for: the dashboard
\* step calls extract_data itself and the run ends with the error
C13_Witness ==
    /\ source = "missing"
    /\ steps = {"dashboard"}
    /\ pc = "raised"
    /\ err = "FileNotFoundError"
    /\ ~report_written

-----------------------------------------------------------------------------
(* Properties of configuration loading (specification SpecConfig) *)

RequiredParams ==
    {"delay_threshold", "cascade_factor", "simulation_delay_reduction"}

\* the value the configuration input gives the parameter, if it gives one
Overridden(k) ==
    /\ config_input.kind = "object"
    /\ "analysis_params" \in DOMAIN config_input.object
    /\ k \in DOMAIN config_input.object["analysis_params"]

\* C14: whatever the configuration input (no path, missing file, invalid
\* JSON, a JSON value that is not an object, an object that overrides only
\* some keys or only some analysis parameters), the loaded configuration
\* provides delay_threshold, cascade_factor and simulation_delay_reduction,
\* each at its default unless overridden, and no later stage fails on a
\* missing parameter.
C14_ConfigAlwaysComplete ==
    pc # "config" =>
        /\ \A k \in RequiredParams :
              /\ k \in DOMAIN params
              /\ params[k] = IF Overridden(k)
                             THEN config_input.object["analysis_params"][k]
                             ELSE DefaultParams[k]
        /\ pc = "failed" => HasParam(params, "delay_threshold")

-----------------------------------------------------------------------------
(* Properties of the peak analysis (specification SpecPeak) *)

Peak == results.peak_analysis

\* the departure hours that occur in the record set
HoursPresent ==
    {Val(df.rows[i]["Departure Hour"]) :
        i \in {k \in DOMAIN df.rows : df.rows[k]["Departure Hour"] # None}}

\* the delays, in ticks, of the records of hour h that have one
HourDelays(h) ==
    {<<i, Val(df.rows[i][DepDelayCol])>> :
        i \in {k \in DOMAIN df.rows :
                  /\ df.rows[k]["Departure Hour"] = Some(h)
                  /\ df.rows[k][DepDelayCol] # None}}

RECURSIVE SumSecond(_)
SumSecond(S) ==
    IF S = {} THEN 0
    ELSE LET x == CHOOSE y \in S : TRUE IN x[2] + SumSecond(S \ {x})

\* C15: the congestion index of every departure hour is the hour's flight
\* count times the hour's mean departure delay (0 for a missing mean).
\* The index is kept in hundredths of a minute, the delays in ticks:
\* index / 100 = count * (sum / TicksPerMinute) / n.
C15_CongestionIsCountTimesMean ==
    pc = "peaks" =>
        \A h \in DOMAIN Peak.hourly_stats :
            LET st == Peak.hourly_stats[h]
                n == Cardinality(HourDelays(h))
            IN  IF n = 0 THEN st.congestion_index = 0
                ELSE st.congestion_index * TicksPerMinute * n =
                        100 * st.flight_count * SumSecond(HourDelays(h))

FlightCount(h) == Peak.hourly_stats[h].flight_count

Congestion(h) == Peak.hourly_stats[h].congestion_index

\* a ranks before b in nlargest: a larger count, or the same and earlier
RanksBefore(a, b) ==
    FlightCount(a) > FlightCount(b) \/ (FlightCount(a) = FlightCount(b) /\ a < b)

Min(a, b) == IF a < b THEN a ELSE b

\* C16: busiest_hour has the maximum flight count and most_congested_hour
\* the maximum congestion index, the lowest hour on a tie; peak_hours are
\* the 5 hours with the highest flight count (all when fewer occur); only
\* an hour in which a flight departs is reported as busiest.
C16_PeakHours ==
    pc = "peaks" =>
        /\ DOMAIN Peak.hourly_stats = HoursPresent
        /\ Peak.busiest_hour \in HoursPresent
        /\ \A h \in HoursPresent :
              \/ FlightCount(h) < FlightCount(Peak.busiest_hour)
              \/ (FlightCount(h) = FlightCount(Peak.busiest_hour)
                  /\ Peak.busiest_hour <= h)
        /\ Peak.most_congested_hour \in HoursPresent
        /\ \A h \in HoursPresent :
              \/ Congestion(h) < Congestion(Peak.most_congested_hour)
              \/ (Congestion(h) = Congestion(Peak.most_congested_hour)
                  /\ Peak.most_congested_hour <= h)
        /\ Len(Peak.peak_hours) = Min(PeakHoursCount, Cardinality(HoursPresent))
        /\ \A i \in DOMAIN Peak.peak_hours :
              /\ Peak.peak_hours[i] \in HoursPresent
              /\ \A j \in DOMAIN Peak.peak_hours :
                    i < j => RanksBefore(Peak.peak_hours[i], Peak.peak_hours[j])
              /\ \A h \in HoursPresent \ Range(Peak.peak_hours) :
                    RanksBefore(Peak.peak_hours[i], h)

\* six hours with flights, two of them tied for the highest count and two
\* for the highest congestion index: the lowest is reported, one hour is
\* left out of peak_hours
C16_Witness ==
    /\ pc = "peaks"
    /\ Cardinality(HoursPresent) > PeakHoursCount
    /\ Len(Peak.peak_hours) = PeakHoursCount
    /\ \E h \in HoursPresent :
          /\ h > Peak.busiest_hour
          /\ FlightCount(h) = FlightCount(Peak.busiest_hour)
    /\ \E h \in HoursPresent :
          /\ h > Peak.most_congested_hour
          /\ Congestion(h) = Congestion(Peak.most_congested_hour)

-----------------------------------------------------------------------------
(* Frame of run_analysis (specification SpecAnalysis) *)

-----------------------------------------------------------------------------
(* C21: when transform_data has removed the repeated headers, the frame    *)
(* holds, in the order of the sheet, exactly the rows below the header row *)
(* whose flight-number cell is not the text "Flight Number": every row     *)
(* with that text is dropped and every other row, a blank flight number or *)
(* the label in another letter case included, is kept.                     *)

\* the non-empty rows of the sheet below the header row
BelowHeader ==
    SubSeq(NonEmptyRows, header_row + 2, Len(NonEmptyRows))

\* the positions below the header whose flight-number cell is not the label
KeptPositions ==
    {i \in DOMAIN BelowHeader :
        LET fn == CHOOSE j \in DOMAIN df.columns :
                      /\ df.columns[j] = "Flight Number"
                      /\ \A k \in 1..(j - 1) : df.columns[k] # "Flight Number"
        IN  BelowHeader[i][fn] # Some("Flight Number")}

C21_RepeatedHeadersDropped ==
    pc = "filtered" =>
        /\ Len(df.rows) = Cardinality(KeptPositions)
        /\ \A n \in DOMAIN df.rows :
              \E i \in KeptPositions :
                  /\ Cardinality({k \in KeptPositions : k <= i}) = n
                  /\ df.rows[n] = BelowHeader[i]

\* a repeated header between two kept rows, one of them the label in lower
\* case, was dropped
C21_Witness ==
    /\ pc = "filtered"
    /\ Len(df.rows) >= 2
    /\ Cardinality(KeptPositions) < Len(BelowHeader)
    /\ \E i \in KeptPositions : BelowHeader[i][1] = Some("flight number")
    /\ \E i, j \in KeptPositions :
          i < j /\ \E k \in (i + 1)..(j - 1) : k \notin KeptPositions
-----------------------------------------------------------------------------
(* Properties of the date column search (specification SpecDateColumn) *)

\* the frame _parse_datetime_fields was given
Cleaned == clean_columns(transform_head(raw))

\* the date and time parsing was reached (it ran to its end or raised)
DateParsingDone == pc = "dated" \/ (pc = "failed" /\ err = "ValueError")

\* the first 10 non-empty values of the column at position j
FirstValues(j) ==
    LET filled == {i \in DOMAIN Cleaned.rows : Cleaned.rows[i][j] # None}
    IN  {Cleaned.rows[i][j][1] :
            i \in {k \in filled :
                      Cardinality({m \in filled : m < k}) < 10}}

\* the columns with a day-month-year text among those values
DatedColumns ==
    {j \in DOMAIN Cleaned.columns :
        FirstValues(j) \cap {"05-Jan-24", "06-Jan-24", "31-Feb-24"} # {}}

\* the columns named as a synthesized date column, or blank
SynthesizedColumns ==
    {j \in DOMAIN Cleaned.columns :
        \/ Cleaned.columns[j] = ""
        \/ \E n \in 0..Len(Cleaned.columns) :
              Cleaned.columns[j] = "date_col_" \o ToString(n)}

Lowest(J) == CHOOSE j \in J : \A k \in J : j <= k

\* C22: _find_date_column returns the first column, in column order, with
\* a day-month-year text among its first 10 non-empty values; else the
\* first column with a synthesized date name; else the third column of a
\* table of more than two columns; else none, and then the frame gets no
\* Date and no timestamp field (hence no delay field).
C22_DateColumnChoice ==
    DateParsingDone =>
        /\ date_col =
              IF DatedColumns # {}
              THEN <<Cleaned.columns[Lowest(DatedColumns)]>>
              ELSE IF SynthesizedColumns # {}
                   THEN <<Cleaned.columns[Lowest(SynthesizedColumns)]>>
              ELSE IF Len(Cleaned.columns) > 2 THEN <<Cleaned.columns[3]>>
              ELSE <<>>
        /\ date_col = <<>> => df = Cleaned

\* the same on the frames whose column names are all distinct
C22_DistinctNames ==
    (\A j, k \in DOMAIN Cleaned.columns :
        Cleaned.columns[j] = Cleaned.columns[k] => j = k)
    => C22_DateColumnChoice
-----------------------------------------------------------------------------
(* Properties of the date and time parsing (specification SpecDates) *)

\* the position of the first column of the parsed frame with the label
ColumnOf(col) == Lowest({j \in DOMAIN df.columns : df.columns[j] = col})

HasColumn(col) == \E j \in DOMAIN df.columns : df.columns[j] = col

\* the cell of row i under the label
Cell(i, col) == df.rows[i][ColumnOf(col)]

\* the text of row i in the date column is a calendar date
DateParses(i) ==
    /\ Cell(i, date_col[1]) # None
    /\ Cell(i, date_col[1])[1] \in {"05-Jan-24", "06-Jan-24"}

\* the time text of row i in the time column is a time of day
TimeParses(i, col) ==
    /\ Cell(i, col) # None
    /\ Cell(i, col)[1] \in {"10:00 AM", "10:20 AM"}

TimeColumns == {"STD", "ATD", "STA", "ATA_time"}

-----------------------------------------------------------------------------
(* Properties of the order of an airline's flights (specification          *)
(* SpecCascade)                                                            *)

\* rows i and j belong to one known airline
SameAirline(i, j) ==
    /\ notna(df.rows[i]["Airline"])
    /\ df.rows[i]["Airline"] = df.rows[j]["Airline"]

\* row i comes before row j when the rows are ordered by scheduled
\* departure, the rows without one last, and ties keep the input order
StableBefore(i, j) ==
    LET ki == df.rows[i]["STD_dt"]
        kj == df.rows[j]["STD_dt"]
    IN  /\ i # j
        /\ \/ notna(ki) /\ isna(kj)
           \/ notna(ki) /\ notna(kj) /\ Val(ki) < Val(kj)
           \/ ki = kj /\ i < j

\* <<previous, current, amount>> for the consecutive pairs of that order
\* whose previous flight is more than 15 minutes late
StableCascades ==
    {<<i, j, Val(DelayOfRow(i)) * params["cascade_factor"]>> :
        <<i, j>> \in
            {q \in (DOMAIN df.rows) \X (DOMAIN df.rows) :
                /\ SameAirline(q[1], q[2])
                /\ StableBefore(q[1], q[2])
                /\ ~\E k \in DOMAIN df.rows :
                      /\ SameAirline(q[1], k)
                      /\ StableBefore(q[1], k) /\ StableBefore(k, q[2])
                /\ notna(DelayOfRow(q[1]))
                /\ Val(DelayOfRow(q[1])) > Minutes(15)}}

\* C24: each airline's flights are taken in ascending order of scheduled
\* departure and flights with the same scheduled departure keep their
\* input order, so the consecutive pairs, and with them affected_flights
\* and total_cascade_minutes, are fixed by the input order alone.
C24_TiesKeepInputOrder ==
    (pc = "analyzed" /\ CascadeApplies(df) /\ Has(df, "STD_dt")) =>
        /\ \A a \in DOMAIN airline_flights :
              \A m, n \in DOMAIN airline_flights[a] :
                  m < n => StableBefore(airline_flights[a][m],
                                        airline_flights[a][n])
        /\ results.cascade_analysis.affected_flights
              = Cardinality(StableCascades)
        /\ results.cascade_analysis.total_cascade_minutes
              = SumThird(StableCascades)
-----------------------------------------------------------------------------
(* Properties of the cascade per airline (specification SpecCascade) *)

\* the airlines of the frame
KnownAirlines ==
    {df.rows[i]["Airline"][1] :
        i \in {k \in DOMAIN df.rows : notna(df.rows[k]["Airline"])}}

\* the flights of airline a alone, in the order the analysis walked them
OwnSequence(a) ==
    IF a \in DOMAIN airline_flights
    THEN SelectSeq(airline_flights[a],
                   LAMBDA i : df.rows[i]["Airline"] = <<a>>)
    ELSE <<>>

\* <<airline, position, amount>>: the cascades found when airline a is
\* analysed on its own
OwnCascades(a) ==
    {<<a, k, DelayOfRow(OwnSequence(a)[k - 1])[1] * params["cascade_factor"]>> :
        k \in {j \in 2..Len(OwnSequence(a)) :
                  /\ DelayOfRow(OwnSequence(a)[j - 1]) # None
                  /\ DelayOfRow(OwnSequence(a)[j - 1])[1] > 15 * 60}}

\* C25: every cascade is attributed to a flight by the previous flight of
\* the same airline, however the flights of other airlines are interleaved
\* in time, and affected_flights and total_cascade_minutes are the sums of
\* the counts and totals of the airlines taken one by one, in any order.
C25_CascadeWithinAirline ==
    (pc = "analyzed" /\ CascadeApplies(df) /\ Has(df, "STD_dt")) =>
        LET all == UNION {OwnCascades(a) : a \in KnownAirlines}
        IN  /\ \A n \in DOMAIN cascade_impacts :
                  \E x \in all :
                      /\ cascade_impacts[n].row = OwnSequence(x[1])[x[2]]
                      /\ cascade_impacts[n].cascade_delay = x[3]
            /\ results.cascade_analysis.affected_flights = Cardinality(all)
            /\ results.cascade_analysis.total_cascade_minutes = SumThird(all)

\* a late flight of one airline, then a flight of another airline, then the
\* next flight of the first: the only cascade recorded is on the last one
C25_Witness ==
    /\ pc = "analyzed"
    /\ Len(cascade_impacts) = 1
    /\ Cardinality(KnownAirlines) = 2
    /\ \E p, q, r \in DOMAIN df.rows :
          /\ cascade_impacts[1].row = r
          /\ SameAirline(p, r)
          /\ notna(df.rows[q]["Airline"]) /\ ~SameAirline(p, q)
          /\ \A i \in {p, q, r} : notna(df.rows[i]["STD_dt"])
          /\ Val(df.rows[p]["STD_dt"]) < Val(df.rows[q]["STD_dt"])
          /\ Val(df.rows[q]["STD_dt"]) <= Val(df.rows[r]["STD_dt"])
          /\ notna(DelayOfRow(p)) /\ Val(DelayOfRow(p)) > Minutes(15)
-----------------------------------------------------------------------------
(* Properties of the airline code (specification SpecAirline) *)

\* the positions of the text where two uppercase letters start
UpperPairs(s) ==
    {k \in 1..(Len(s) - 1) : s[k] \in UpperCase /\ s[k + 1] \in UpperCase}

\* the length of the run of uppercase letters that starts at position k
RECURSIVE RunLength(_, _)
RunLength(s, k) ==
    IF k > Len(s) \/ s[k] \notin UpperCase THEN 0
    ELSE 1 + RunLength(s, k + 1)

\* C26: the airline code depends on the flight number only: it is the
\* first run of at least 2 uppercase letters of the flight number, cut to
\* at most 3 letters, absent when the flight number has no two consecutive
\* uppercase letters, and whenever it is present it is the leading
\* characters of the flight number.
C26_AirlineCodeLeading ==
    pc = "cleaned" =>
        \A i \in DOMAIN df.rows :
            LET fn == df.rows[i]["Flight Number"]
                code == df.rows[i]["Airline"]
            IN  IF fn = None THEN code = None
                ELSE LET s == fn[1]
                         k == Lowest(UpperPairs(s))
                         n == IF RunLength(s, k) > 3 THEN 3
                              ELSE RunLength(s, k)
                     IN  /\ UpperPairs(s) = {} => code = None
                         /\ UpperPairs(s) # {} =>
                               /\ code = <<SubSeq(s, k, k + n - 1)>>
                               /\ code = <<SubSeq(s, 1, n)>>

\* the same without the last clause: the code is the first run, cut to 3
C26_FirstUppercaseRun ==
    pc = "cleaned" =>
        \A i \in DOMAIN df.rows :
            LET fn == df.rows[i]["Flight Number"]
                code == df.rows[i]["Airline"]
            IN  IF fn = None THEN code = None
                ELSE LET s == fn[1]
                         k == Lowest(UpperPairs(s))
                         n == IF RunLength(s, k) > 3 THEN 3
                              ELSE RunLength(s, k)
                     IN  /\ UpperPairs(s) = {} => code = None
                         /\ UpperPairs(s) # {} =>
                               code = <<SubSeq(s, k, k + n - 1)>>
-----------------------------------------------------------------------------
(* Properties of the step selection (specification SpecPipeline) *)

\* the stages in their fixed order
StageOrder ==
    <<"extract_data", "transform_data", "run_analysis", "generate_reports",
      "create_dashboard">>

StageRank(call) == CHOOSE r \in DOMAIN StageOrder : StageOrder[r] = call

\* the stages whose output each step needs, its own included
StagesOf ==
    [step \in {"extract", "transform", "analyze", "visualize", "dashboard"} |->
        CASE step = "extract" -> {"extract_data"}
          [] step = "transform" -> {"extract_data", "transform_data"}
          [] step = "analyze" ->
                {"extract_data", "transform_data", "run_analysis"}
          [] step = "visualize" ->
                {"extract_data", "transform_data", "run_analysis",
                 "generate_reports"}
          [] OTHER ->
                {"extract_data", "transform_data", "run_analysis",
                 "create_dashboard"}]

\* the steps run_pipeline has gone past without an exception
StepsPassed ==
    {StepAt[i] : i \in {j \in DOMAIN StepOrder :
        /\ pc # "raised"
        /\ \A k \in 1..j : pc # StepOrder[k]}}

\* C27: for every subset of the steps, no stage is called twice in one
\* call of run_pipeline; the stages are called in the order extract,
\* transform, analyze, visualize, dashboard; a requested step that has run
\* has first run every stage it needs that had not run; visualization and
\* dashboard are called only after transformation and analysis returned.
C27_StagesOnceInOrder ==
    /\ \A i, j \in DOMAIN ran :
          i < j => StageRank(ran[i]) < StageRank(ran[j])
    /\ \A step \in StepsPassed \cap steps :
          \A call \in StagesOf[step] : \E i \in DOMAIN ran : ran[i] = call
    /\ \A i \in DOMAIN ran :
          ran[i] \in {"generate_reports", "create_dashboard"} =>
              /\ \E j \in 1..(i - 1) : ran[j] = "transform_data"
              /\ \E j \in 1..(i - 1) : ran[j] = "run_analysis"
    /\ \A i \in DOMAIN ran :
          \E step \in steps : ran[i] \in StagesOf[step]

\* extraction and dashboard asked for: the dashboard step runs the
\* transformation and the analysis itself and does not extract again
C27_Witness ==
    /\ steps = {"extract", "dashboard"}
    /\ pc = "completed"
    /\ ran = <<"extract_data", "transform_data", "run_analysis",
               "create_dashboard">>
-----------------------------------------------------------------------------
(* Properties of the step selection of main.py (specification SpecMain) *)

\* the call was made and returned before position i of the log
ReturnedBefore(call, i) == \E j \in 1..(i - 1) : ran[j] = call

\* C28: for every list of steps the command line accepts, a step runs
\* only after the data it consumes was produced in the same call: no
\* transformation without extracted data, no analysis without cleaned
\* data, no dashboard without cleaned data and analysis results.
C28_StepsNeedTheirData ==
    \A i \in DOMAIN ran :
        /\ ran[i] = "transform_data" => ReturnedBefore("extract_data", i)
        /\ ran[i] = "run_analysis" => ReturnedBefore("transform_data", i)
        /\ ran[i] = "create_dashboard" =>
              /\ ReturnedBefore("transform_data", i)
              /\ ReturnedBefore("run_analysis", i)

\* transformation and analysis asked for without extraction: the run ends
\* at the transformation step before any stage is called
C28_Witness ==
    /\ steps = {"transform", "analyze"}
    /\ pc = "raised"
    /\ err = "UnboundLocalError"
    /\ ran = <<>>
-----------------------------------------------------------------------------
(* Properties of the bounds of the simulation (specification SpecAnalysis) *)

\* the simulation ran on at least one present delay with a reduction >= 0
Simulated ==
    /\ pc = "analyzed"
    /\ Has(df, DepDelayCol)
    /\ PresentDelays # <<>>
    /\ params["simulation_delay_reduction"] >= 0

\* improvement >= 0 and improvement <= reduction, improvement being a
\* fraction of ticks
ImprovementNotNegative == Scenario.improvement[1][1] >= 0

ImprovementWithinReduction ==
    Scenario.improvement[1][1]
        <= params["simulation_delay_reduction"] * 60
               * Scenario.improvement[1][2]

\* C29: with a reduction >= 0, no simulated delay is below -15 minutes and
\* none is greater than the original delay of the same record, hence the
\* improvement lies between 0 and the reduction, inclusive.
C29_SimulationNeverWorse ==
    Simulated =>
        /\ \A i \in DOMAIN PresentDelays :
              LET d == PresentDelays[i]
                  sim == SimulatedDelay(<<d>>,
                             params["simulation_delay_reduction"])[1]
              IN  sim >= -15 * 60 /\ sim <= d
        /\ ImprovementNotNegative
        /\ ImprovementWithinReduction

\* C29, amended: with a reduction >= 0, no simulated delay is below -15
\* minutes, and none is greater than the original delay of a record whose
\* original delay is at least -15 minutes; hence the improvement is never
\* greater than the reduction, and it is at least 0 when no original delay
\* is below -15 minutes.
C29_SimulationBounds ==
    Simulated =>
        /\ \A i \in DOMAIN PresentDelays :
              LET d == PresentDelays[i]
                  sim == SimulatedDelay(<<d>>,
                             params["simulation_delay_reduction"])[1]
              IN  sim >= -15 * 60 /\ (d >= -15 * 60 => sim <= d)
        /\ ImprovementWithinReduction
        /\ (\A i \in DOMAIN PresentDelays : PresentDelays[i] >= -15 * 60)
              => ImprovementNotNegative

\* a flight that left 20 minutes early beside a late one: its simulated
\* delay is the floor, and the improvement is negative
C29_Witness ==
    /\ Simulated
    /\ \E i \in DOMAIN PresentDelays : PresentDelays[i] = -20 * 60
    /\ \E i \in DOMAIN PresentDelays : PresentDelays[i] > 15 * 60
    /\ ~ImprovementNotNegative
-----------------------------------------------------------------------------
(* Properties of the two on-time figures (specification SpecAnalysis) *)

\* the present departure delays that are within the threshold
WithinThreshold ==
    {i \in DOMAIN PresentDelays :
        PresentDelays[i] <= params["delay_threshold"] * 60}

\* C30: efficiency_metrics.on_time_performance is the same number as the
\* on_time_rate of the departure delay in delay_analysis: both are the
\* fraction, among the records with a present departure delay, of those
\* whose delay is at most the threshold, also when some record has no
\* departure delay.
C30_OnTimeFiguresAgree ==
    (/\ pc = "analyzed"
     /\ Has(df, "On Time")
     /\ Has(df, DepDelayCol)
     /\ PresentDelays # <<>>) =>
        LET rate == results.delay_analysis[DepDelayCol].on_time_rate
            perf == results.efficiency_metrics.on_time_performance
        IN  /\ rate[1] * Len(PresentDelays)
                  = Cardinality(WithinThreshold) * rate[2]
            /\ perf = <<rate>>

\* the same on the frames in which every record has a departure delay
C30_AgreeWhenAllPresent ==
    Len(PresentDelays) = Len(df.rows) => C30_OnTimeFiguresAgree
====
